------------------------------ MODULE LeaseTable ------------------------------
(***************************************************************************)
(* The volume lease table of the namespace router, as a value: what one    *)
(* lease, volume or reservation record does to it.  Translated from        *)
(* LeaseTable in namespace_pic_state.rs and the lease half of              *)
(* judge_volume_at in namespace_pic_body.rs.                               *)
(*                                                                         *)
(* A key (namespace root and path) is a member of Volume, a holder id a    *)
(* member of Holder.  Times are milliseconds of the stamping server; 0 is  *)
(* what a platform with no wall clock reads.  Fences are unbounded here:   *)
(* the code counts them in 64 bits and refuses at the last one, which no   *)
(* sequence of grants reaches.                                             *)
(***************************************************************************)
EXTENDS Naturals

CONSTANTS
    Volume,      \* keys a lease can name
    Holder,      \* writers that can hold one
    NoVolume,    \* the key of an unused slot
    NoHolder,    \* the holder of an unused slot
    Slots,       \* LEASE_SLOTS, the table's capacity
    TtlMax       \* LEASE_TTL_MAX_MS

ASSUME NoVolumeAssumption == NoVolume \notin Volume
ASSUME NoHolderAssumption == NoHolder \notin Holder
ASSUME SlotsAssumption == Slots \in Nat \ {0}
ASSUME TtlMaxAssumption == TtlMax \in Nat \ {0}

Slot == 1..Slots

Entry == [vol : Volume \cup {NoVolume}, live : BOOLEAN,
          holder : Holder \cup {NoHolder}, fence : Nat, expires : Nat,
          stamp : Nat, flushing : BOOLEAN]

Table == [entries : [Slot -> Entry], fenceFloor : Nat, stampFloor : Nat]

EmptyEntry == [vol |-> NoVolume, live |-> FALSE, holder |-> NoHolder,
               fence |-> 0, expires |-> 0, stamp |-> 0, flushing |-> FALSE]

EmptyTable == [entries |-> [i \in Slot |-> EmptyEntry],
               fenceFloor |-> 0, stampFloor |-> 0]

(***************************************************************************)
(* Reading the table.                                                      *)
(***************************************************************************)

HeldAt(e, now) == e.live /\ now < e.expires

\* The slots naming v; the table keeps at most one.
Naming(t, v) == {i \in Slot : t.entries[i].vol = v}

Known(t, v) == Naming(t, v) # {}

First(S) == CHOOSE i \in S : \A j \in S : i <= j

SlotOf(t, v) == First(Naming(t, v))

Lease(t, v) == t.entries[SlotOf(t, v)]

\* The record's writer is the entry's lease generation, live or lapsed.
SameGeneration(t, v, h, f) ==
    Known(t, v) /\ Lease(t, v).holder = h /\ Lease(t, v).fence = f

\* Mutant: the fence is not compared.
HoldsAnyFence(t, v, h, f, now) ==
    Known(t, v) /\ Lease(t, v).holder = h /\ HeldAt(Lease(t, v), now)

Holds(t, v, h, f, now) ==
    SameGeneration(t, v, h, f) /\ HeldAt(Lease(t, v), now)

\* Mutant: the flush mark is not read.
IsFlushingUnread(t, v, h) == Known(t, v) /\ Lease(t, v).holder = h

IsFlushing(t, v, h) ==
    Known(t, v) /\ Lease(t, v).flushing /\ Lease(t, v).holder = h

AnyFlushing(t) ==
    \E i \in Slot : t.entries[i].vol # NoVolume /\ t.entries[i].flushing

(***************************************************************************)
(* Changing it.  Put replaces one slot's entry.                            *)
(***************************************************************************)

Put(t, i, e) == [t EXCEPT !.entries = [t.entries EXCEPT ![i] = e]]

AtLeast(a, b) == IF a < b THEN b ELSE a

SetFlushing(t, v, h, open) ==
    IF Known(t, v) /\ Lease(t, v).holder = h
    THEN Put(t, SlotOf(t, v), [Lease(t, v) EXCEPT !.flushing = open])
    ELSE t

EndExpiredFlushes(t, now) ==
    IF now = 0 THEN t
    ELSE [t EXCEPT !.entries = [i \in Slot |->
            [t.entries[i] EXCEPT !.flushing =
                t.entries[i].flushing /\ HeldAt(t.entries[i], now)]]]

\* touch: a record stamped no later than the last one judged changes nothing.
Fresh(t, v, now) == Known(t, v) /\ Lease(t, v).stamp < now

Touch(t, v, now) == Put(t, SlotOf(t, v), [Lease(t, v) EXCEPT !.stamp = now])

(***************************************************************************)
(* claim_slot: a free slot, or the first entry not held at now whose       *)
(* history is earlier than now.  Recycling folds its fence and its stamp   *)
(* into the floors.                                                        *)
(***************************************************************************)
FreeSlots(t) == {i \in Slot : t.entries[i].vol = NoVolume}

Recyclable(t, now) ==
    {i \in Slot : ~HeldAt(t.entries[i], now) /\ t.entries[i].stamp < now}

Claimable(t, now) ==
    IF FreeSlots(t) # {} THEN FreeSlots(t) ELSE Recyclable(t, now)

\* Mutants: the recycled entry's fence, or its stamp, is forgotten.
RecycleFence(t, i) ==
    [t EXCEPT !.entries = [t.entries EXCEPT ![i] = EmptyEntry],
              !.stampFloor = AtLeast(t.stampFloor, t.entries[i].stamp)]
RecycleStamp(t, i) ==
    [t EXCEPT !.entries = [t.entries EXCEPT ![i] = EmptyEntry],
              !.fenceFloor = AtLeast(t.fenceFloor, t.entries[i].fence)]

Recycle(t, i) ==
    [entries |-> [t.entries EXCEPT ![i] = EmptyEntry],
     fenceFloor |-> AtLeast(t.fenceFloor, t.entries[i].fence),
     stampFloor |-> AtLeast(t.stampFloor, t.entries[i].stamp)]

ClaimSlot(t, i) == IF FreeSlots(t) # {} THEN t ELSE Recycle(t, i)

(***************************************************************************)
(* One lease record: the table after it, the status answered, and the      *)
(* fence and expiry that go with the status.                               *)
(***************************************************************************)
LeaseOps == {"acquire", "renew", "release"}

LeaseStatus == {"Granted", "Held", "Lost", "Busy", "BadRequest", "Stale"}

Outcome(t, status, fence, expires) ==
    [table |-> t, status |-> status, fence |-> fence, expires |-> expires]

Bare(t, status) == Outcome(t, status, 0, 0)

Standing(t, e, status, now) ==
    IF HeldAt(e, now) THEN Outcome(t, status, e.fence, e.expires)
                      ELSE Bare(t, status)

\* Mutant: the time to live is taken off the stamp.
GrantedPast(t, i, e) ==
    Outcome(Put(t, i, [e EXCEPT !.expires = e.stamp - (e.expires - e.stamp)]),
            "Granted", e.fence, e.expires)

Granted(t, i, e) == Outcome(Put(t, i, e), "Granted", e.fence, e.expires)

\* apply_absent.
ApplyAbsent(t, op, v, h, now, ttl) ==
    IF now <= t.stampFloor THEN Bare(t, "Stale")
    ELSE IF op # "acquire" THEN Bare(t, "Lost")
    ELSE IF Claimable(t, now) = {} THEN Bare(t, "Busy")
    ELSE LET i == First(Claimable(t, now))
             c == ClaimSlot(t, i)
         IN  Granted(c, i, [vol |-> v, live |-> TRUE, holder |-> h,
                            fence |-> c.fenceFloor + 1, expires |-> now + ttl,
                            stamp |-> now, flushing |-> FALSE])

\* The match on the record's op, against the entry already stamped.
ApplyKnown(t, i, op, h, now, ttl) ==
    LET e    == [t.entries[i] EXCEPT !.stamp = now]
        mine == e.live /\ e.holder = h
        held == HeldAt(e, now)
    IN  CASE op = "acquire" /\ held /\ ~mine ->
               Standing(Put(t, i, e), e, "Held", now)
          [] op = "acquire" /\ ~held ->
               Granted(t, i, [e EXCEPT !.fence = @ + 1, !.holder = h,
                                       !.live = TRUE, !.flushing = FALSE,
                                       !.expires = now + ttl])
          [] op \in {"acquire", "renew"} /\ mine /\ held ->
               Granted(t, i, [e EXCEPT !.expires = now + ttl])
          [] op = "release" /\ mine ->
               Outcome(Put(t, i, [e EXCEPT !.live = FALSE, !.flushing = FALSE]),
                       "Granted", e.fence, 0)
          [] OTHER -> Standing(Put(t, i, e), e, "Lost", now)

\* apply.
LeaseApply(t, op, v, h, now, ttl) ==
    IF now = 0 \/ (op # "release" /\ (ttl = 0 \/ ttl > TtlMax))
    THEN Bare(t, "BadRequest")
    ELSE IF ~Known(t, v) THEN ApplyAbsent(t, op, v, h, now, ttl)
    ELSE IF now <= Lease(t, v).stamp THEN Bare(t, "Stale")
    ELSE ApplyKnown(t, SlotOf(t, v), op, h, now, ttl)

(***************************************************************************)
(* Surviving a log rotation: the rotated log opens with one restore record *)
(* per used entry (seed_lease), each carrying the floors too, and replay   *)
(* reinstates them one by one (restore) into an empty table.               *)
(***************************************************************************)
\* Mutant: the floors are not carried over.
RestoreFloors(t, e, fenceFloor, stampFloor) ==
    LET room == IF Known(t, e.vol) THEN Naming(t, e.vol) ELSE FreeSlots(t)
    IN  IF room = {} THEN t
        ELSE [t EXCEPT !.entries = [t.entries EXCEPT ![First(room)] = e]]

Restore(t, e, fenceFloor, stampFloor) ==
    LET room == IF Known(t, e.vol) THEN Naming(t, e.vol) ELSE FreeSlots(t)
    IN  IF room = {} THEN t
        ELSE [entries |-> [t.entries EXCEPT ![First(room)] = e],
              fenceFloor |-> AtLeast(t.fenceFloor, fenceFloor),
              stampFloor |-> AtLeast(t.stampFloor, stampFloor)]

\* The table a replay of t's seeds builds.
Reseeded(t) ==
    LET upto[n \in 0..Slots] ==
            IF n = 0 THEN EmptyTable
            ELSE IF t.entries[n].vol = NoVolume THEN upto[n - 1]
            ELSE Restore(upto[n - 1], t.entries[n], t.fenceFloor, t.stampFloor)
    IN  upto[Slots]
===============================================================================
