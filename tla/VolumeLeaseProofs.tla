-------------------------- MODULE VolumeLeaseProofs --------------------------
(***************************************************************************)
(* Proofs about VolumeLease, for every set of volumes and holders, every   *)
(* table size and every bound.                                             *)
(***************************************************************************)
EXTENDS VolumeLease, TLAPS, WellFoundedInduction

-------------------------------------------------------------------------------
(***************************************************************************)
(* The operators of LeaseTable.                                            *)
(***************************************************************************)

\* First returns a member of its argument: slots are naturals, so a set of
\* them that is not empty has a least one (the scans of find and claim_slot).
LEMMA FirstIn ==
    ASSUME NEW S \in SUBSET Slot, S # {}
    PROVE  First(S) \in S
<1>1. S \subseteq Nat
  BY SlotsAssumption DEF Slot
<1>2. PICK x \in S : \A y \in S : ~(<<y, x>> \in OpToRel(<, Nat))
  BY <1>1, NatLessThanWellFounded, WFMin
<1>3. ASSUME NEW y \in S PROVE x <= y
  <2>1. ~(<<y, x>> \in OpToRel(<, Nat))
    BY <1>2
  <2>2. ~(y < x)
    BY <1>1, <2>1 DEF OpToRel
  <2> QED BY <1>1, <2>2
<1> QED BY <1>3 DEF First

\* No two slots name one volume.
Distinct(t) ==
    \A i, j \in Slot :
        t.entries[i].vol = t.entries[j].vol /\ t.entries[i].vol # NoVolume => i = j

\* Entry e stands at or above the fence of g, and at it only for g's holder.
Above(e, g) == g.fence < e.fence \/ (g.fence = e.fence /\ g.holder = e.holder)

\* The table remembers enough not to issue g's fence again: the entry naming
\* its volume stands above it, or the floor does when no entry names it.
Covered(t, g) ==
    /\ \A i \in Slot : t.entries[i].vol = g.vol => Above(t.entries[i], g)
    /\ ~Known(t, g.vol) => g.fence <= t.fenceFloor

\* u differs from t in stamps, expiries and flush marks at most.
SameFences(t, u) ==
    /\ u \in Table
    /\ u.fenceFloor = t.fenceFloor
    /\ \A i \in Slot : /\ u.entries[i].vol = t.entries[i].vol
                        /\ u.entries[i].fence = t.entries[i].fence
                        /\ u.entries[i].holder = t.entries[i].holder

\* A volume the table knows is named by the slot find returns.
LEMMA SlotOfNames ==
    ASSUME NEW t \in Table, NEW v, Known(t, v)
    PROVE  SlotOf(t, v) \in Slot /\ t.entries[SlotOf(t, v)].vol = v
<1>1. Naming(t, v) \in SUBSET Slot /\ Naming(t, v) # {}
  BY DEF Naming, Known
<1>2. SlotOf(t, v) \in Naming(t, v)
  BY <1>1, FirstIn DEF SlotOf
<1> QED BY <1>2 DEF Naming

\* Writing an entry into a slot of a table leaves a table.
LEMMA PutTable ==
    ASSUME NEW t \in Table, NEW i \in Slot, NEW e \in Entry
    PROVE  /\ Put(t, i, e) \in Table
           /\ Put(t, i, e).fenceFloor = t.fenceFloor
           /\ Put(t, i, e).stampFloor = t.stampFloor
           /\ Put(t, i, e).entries = [t.entries EXCEPT ![i] = e]
  BY DEF Put, Table

\* What preserves fences preserves what the table remembers of them.
LEMMA SameFencesCovered ==
    ASSUME NEW t \in Table, NEW u, SameFences(t, u), Distinct(t)
    PROVE  /\ Distinct(u)
           /\ \A g \in Writer : Covered(t, g) => Covered(u, g)
  BY DEF SameFences, Distinct, Covered, Above, Known, Naming

\* The write changes that slot and no other.
LEMMA PutEntries ==
    ASSUME NEW t \in Table, NEW i \in Slot, NEW e \in Entry
    PROVE  \A j \in Slot : Put(t, i, e).entries[j] = IF j = i THEN e ELSE t.entries[j]
<1>1. t.entries \in [Slot -> Entry]
  BY DEF Table
<1>2. Put(t, i, e).entries = [t.entries EXCEPT ![i] = e]
  BY PutTable
<1> QED BY <1>1, <1>2

\* A write that keeps the slot's volume, fence and holder keeps every fence.
LEMMA PutSame ==
    ASSUME NEW t \in Table, NEW i \in Slot, NEW e \in Entry,
           e.vol = t.entries[i].vol, e.fence = t.entries[i].fence,
           e.holder = t.entries[i].holder
    PROVE  SameFences(t, Put(t, i, e))
<1>1. /\ Put(t, i, e) \in Table
      /\ Put(t, i, e).fenceFloor = t.fenceFloor
  BY PutTable
<1>2. \A j \in Slot : Put(t, i, e).entries[j] = IF j = i THEN e ELSE t.entries[j]
  BY PutEntries
<1> QED BY <1>1, <1>2 DEF SameFences

\* Stamping an entry (touch) keeps every fence.
LEMMA TouchSame ==
    ASSUME NEW t \in Table, NEW v \in Volume, NEW now \in Nat, Known(t, v)
    PROVE  SameFences(t, Touch(t, v, now))
<1> DEFINE i == SlotOf(t, v)
           e == [t.entries[i] EXCEPT !.stamp = now]
<1>1. i \in Slot
  BY SlotOfNames
<1>2. t.entries[i] \in Entry
  BY <1>1 DEF Table
<1>3. e \in Entry /\ e.vol = t.entries[i].vol /\ e.fence = t.entries[i].fence
                  /\ e.holder = t.entries[i].holder
  BY <1>2 DEF Entry
<1>4. Touch(t, v, now) = Put(t, i, e)
  BY DEF Touch, Lease
<1> HIDE DEF i, e
<1> QED BY <1>1, <1>3, <1>4, PutSame

\* Opening or closing a flush (set_flushing) keeps every fence.
LEMMA SetFlushingSame ==
    ASSUME NEW t \in Table, NEW v \in Volume, NEW h, NEW open \in BOOLEAN
    PROVE  SameFences(t, SetFlushing(t, v, h, open))
<1> DEFINE i == SlotOf(t, v)
           e == [t.entries[i] EXCEPT !.flushing = open]
<1>1. CASE Known(t, v) /\ Lease(t, v).holder = h
  <2>1. i \in Slot
    BY <1>1, SlotOfNames
  <2>2. t.entries[i] \in Entry
    BY <2>1 DEF Table
  <2>3. e \in Entry /\ e.vol = t.entries[i].vol /\ e.fence = t.entries[i].fence
                    /\ e.holder = t.entries[i].holder
    BY <2>2 DEF Entry
  <2>4. SetFlushing(t, v, h, open) = Put(t, i, e)
    BY <1>1 DEF SetFlushing, Lease
  <2> HIDE DEF i, e
  <2> QED BY <2>1, <2>3, <2>4, PutSame
<1>2. CASE ~(Known(t, v) /\ Lease(t, v).holder = h)
  BY <1>2 DEF SetFlushing, SameFences
<1> QED BY <1>1, <1>2

\* Ending the flushes of expired leases (end_expired_flushes) keeps every fence.
LEMMA EndExpiredSame ==
    ASSUME NEW t \in Table, NEW now \in Nat
    PROVE  SameFences(t, EndExpiredFlushes(t, now))
<1> DEFINE ended(i) == t.entries[i].flushing /\ HeldAt(t.entries[i], now)
           e(i) == [t.entries[i] EXCEPT !.flushing = ended(i)]
           es == [i \in Slot |-> e(i)]
<1>1. ASSUME NEW i \in Slot
      PROVE  e(i) \in Entry /\ e(i).vol = t.entries[i].vol
             /\ e(i).fence = t.entries[i].fence /\ e(i).holder = t.entries[i].holder
  <2>1. t.entries[i] \in Entry
    BY DEF Table
  <2>2. ended(i) \in BOOLEAN
    OBVIOUS
  <2> HIDE DEF ended
  <2> QED BY <2>1, <2>2 DEF Entry
<1>2. CASE now = 0
  BY <1>2 DEF EndExpiredFlushes, SameFences
<1>3. CASE now # 0
  <2>1. EndExpiredFlushes(t, now) = [t EXCEPT !.entries = es]
    BY <1>3 DEF EndExpiredFlushes
  <2>2. es \in [Slot -> Entry] /\ \A i \in Slot : es[i] = e(i)
    BY <1>1
  <2> HIDE DEF es, e
  <2>3. /\ EndExpiredFlushes(t, now) \in Table
        /\ EndExpiredFlushes(t, now).entries = es
        /\ EndExpiredFlushes(t, now).fenceFloor = t.fenceFloor
    BY <2>1, <2>2 DEF Table
  <2> QED BY <1>1, <2>2, <2>3 DEF SameFences
<1> QED BY <1>2, <1>3

\* u is a well-formed table that remembers every fence t remembers.
Remembers(t, u) ==
    /\ u \in Table
    /\ Distinct(u)
    /\ \A g \in Writer : Covered(t, g) => Covered(u, g)

\* Replacing an entry by one of the same volume that stands no lower.
LEMMA PutAbove ==
    ASSUME NEW t \in Table, Distinct(t), NEW i \in Slot, NEW e \in Entry,
           e.vol = t.entries[i].vol,
           \/ e.fence = t.entries[i].fence /\ e.holder = t.entries[i].holder
           \/ e.fence = t.entries[i].fence + 1
    PROVE  Remembers(t, Put(t, i, e))
<1> DEFINE u == Put(t, i, e)
<1>1. u \in Table /\ u.fenceFloor = t.fenceFloor
  BY PutTable
<1>2. \A j \in Slot : u.entries[j] = IF j = i THEN e ELSE t.entries[j]
  BY PutEntries
<1>3. t.entries[i].fence \in Nat
  BY DEF Table, Entry
<1> HIDE DEF u
<1>4. Distinct(u)
  BY <1>2 DEF Distinct
<1>5. ASSUME NEW g \in Writer, Covered(t, g) PROVE Covered(u, g)
  <2>1. \A j \in Slot : u.entries[j].vol = t.entries[j].vol
    BY <1>2
  <2>2. ~Known(u, g.vol) => g.fence <= u.fenceFloor
    BY <1>1, <1>5, <2>1 DEF Covered, Known, Naming
  <2>3. ASSUME NEW j \in Slot, u.entries[j].vol = g.vol
        PROVE  Above(u.entries[j], g)
    <3>1. Above(t.entries[j], g)
      BY <1>5, <2>1, <2>3 DEF Covered
    <3>2. g.fence \in Nat
      BY DEF Writer
    <3>3. CASE j = i
      BY <1>2, <1>3, <3>1, <3>2, <3>3 DEF Above
    <3>4. CASE j # i
      BY <1>2, <3>1, <3>4
    <3> QED BY <3>3, <3>4
  <2> QED BY <2>2, <2>3 DEF Covered
<1>6. Remembers(t, u)
  BY <1>1, <1>4, <1>5 DEF Remembers
<1> QED BY <1>6 DEF u

\* Recycling folds what the slot remembered into the floors.
LEMMA RecycleRemembers ==
    ASSUME NEW t \in Table, Distinct(t), NEW i \in Slot
    PROVE  /\ Remembers(t, Recycle(t, i))
           /\ Recycle(t, i).entries[i].vol = NoVolume
           /\ \A v \in Volume : ~Known(t, v) => ~Known(Recycle(t, i), v)
<1> DEFINE u == Recycle(t, i)
<1>1. t.entries \in [Slot -> Entry] /\ t.fenceFloor \in Nat /\ t.stampFloor \in Nat
  BY DEF Table
<1>2. t.entries[i].fence \in Nat /\ t.entries[i].stamp \in Nat
  BY <1>1 DEF Entry
<1>3. EmptyEntry \in Entry /\ EmptyEntry.vol = NoVolume
  BY DEF EmptyEntry, Entry
<1>4. /\ u.entries = [t.entries EXCEPT ![i] = EmptyEntry]
      /\ u.fenceFloor = AtLeast(t.fenceFloor, t.entries[i].fence)
      /\ u.stampFloor = AtLeast(t.stampFloor, t.entries[i].stamp)
  BY DEF Recycle
<1>5. u.fenceFloor \in Nat /\ u.stampFloor \in Nat
      /\ t.fenceFloor <= u.fenceFloor /\ t.entries[i].fence <= u.fenceFloor
  BY <1>1, <1>2, <1>4 DEF AtLeast
<1>6. u.entries \in [Slot -> Entry]
  BY <1>1, <1>3, <1>4
<1>7. u \in Table
  BY <1>5, <1>6 DEF Recycle, Table
<1>8. \A j \in Slot : u.entries[j] = IF j = i THEN EmptyEntry ELSE t.entries[j]
  BY <1>1, <1>4
<1> HIDE DEF u
<1>9. Distinct(u)
  BY <1>3, <1>8 DEF Distinct
<1>10. ASSUME NEW g \in Writer, Covered(t, g) PROVE Covered(u, g)
  <2>1. g.vol # NoVolume /\ g.fence \in Nat
    BY NoVolumeAssumption DEF Writer
  <2>2. ASSUME NEW j \in Slot, u.entries[j].vol = g.vol
        PROVE  Above(u.entries[j], g)
    BY <1>3, <1>8, <1>10, <2>1, <2>2 DEF Covered
  <2>3. ASSUME ~Known(u, g.vol) PROVE g.fence <= u.fenceFloor
    <3>1. CASE t.entries[i].vol = g.vol
      BY <1>2, <1>5, <1>10, <2>1, <3>1 DEF Covered, Above
    <3>2. CASE t.entries[i].vol # g.vol
      <4>1. ~Known(t, g.vol)
        BY <1>8, <2>3, <3>2 DEF Known, Naming
      <4> QED BY <1>1, <1>5, <1>10, <2>1, <4>1 DEF Covered
    <3> QED BY <3>1, <3>2
  <2> QED BY <2>2, <2>3 DEF Covered
<1>11. \A v \in Volume : ~Known(t, v) => ~Known(u, v)
  BY <1>3, <1>8, NoVolumeAssumption DEF Known, Naming
<1>12. u.entries[i].vol = NoVolume
  BY <1>3, <1>8
<1>13. Remembers(t, u)
  BY <1>7, <1>9, <1>10 DEF Remembers
<1> QED BY <1>11, <1>12, <1>13 DEF u

\* The entry that the grant answered out stands in the table.
Stands(out, v, h) ==
    \E i \in Slot : /\ out.table.entries[i].vol = v
                    /\ out.table.entries[i].fence = out.fence
                    /\ out.table.entries[i].holder = h

\* What a lease record does to the table: it forgets no fence, and a grant
\* leaves its own entry standing.
Sound(t, v, h, out) ==
    /\ Remembers(t, out.table)
    /\ out.fence \in Nat
    /\ out.status = "Granted" => Stands(out, v, h)

\* An answer that grants nothing is sound if its table forgets nothing.
LEMMA SoundBare ==
    ASSUME NEW t, NEW u, NEW v, NEW h, NEW status, status # "Granted",
           Remembers(t, u)
    PROVE  Sound(t, v, h, Bare(u, status))
  BY DEF Sound, Bare, Outcome

\* An answer that reports the standing lease is sound on the same terms.
LEMMA SoundStanding ==
    ASSUME NEW t, NEW u, NEW v, NEW h, NEW e \in Entry, NEW now,
           NEW status, status # "Granted", Remembers(t, u)
    PROVE  Sound(t, v, h, Standing(u, e, status, now))
<1>1. e.fence \in Nat
  BY DEF Entry
<1> QED BY <1>1 DEF Sound, Standing, Bare, Outcome

\* An answer that grants is sound if the table it is written into forgets
\* nothing.
LEMMA SoundGranted ==
    ASSUME NEW t \in Table, NEW c \in Table, NEW v, NEW h, NEW i \in Slot,
           NEW e \in Entry, e.vol = v, e.holder = h,
           Remembers(t, Put(c, i, e)), NEW expires
    PROVE  Sound(t, v, h, Outcome(Put(c, i, e), "Granted", e.fence, expires))
<1> DEFINE out == Outcome(Put(c, i, e), "Granted", e.fence, expires)
<1>1. Put(c, i, e).entries[i] = e
  BY PutEntries
<1>2. out.table = Put(c, i, e) /\ out.fence = e.fence
  BY DEF Outcome
<1>3. e.fence \in Nat
  BY DEF Entry
<1> HIDE DEF out
<1>4. Stands(out, v, h)
  BY <1>1, <1>2 DEF Stands
<1>5. Sound(t, v, h, out)
  BY <1>2, <1>3, <1>4 DEF Sound
<1> QED BY <1>5 DEF out

\* A table remembers what it holds.
LEMMA RemembersRefl ==
    ASSUME NEW t \in Table, Distinct(t)
    PROVE  Remembers(t, t)
  BY DEF Remembers

\* A lease record on a volume the table knows (apply) is answered soundly.
LEMMA ApplyKnownSound ==
    ASSUME NEW t \in Table, Distinct(t), NEW i \in Slot, NEW op,
           NEW h \in Holder, NEW now \in Nat, NEW ttl \in Nat
    PROVE  Sound(t, t.entries[i].vol, h, ApplyKnown(t, i, op, h, now, ttl))
<1> DEFINE v == t.entries[i].vol
           e == [t.entries[i] EXCEPT !.stamp = now]
           mine == e.live /\ e.holder = h
           held == HeldAt(e, now)
           new == [e EXCEPT !.fence = @ + 1, !.holder = h, !.live = TRUE,
                            !.flushing = FALSE, !.expires = now + ttl]
           kept == [e EXCEPT !.expires = now + ttl]
           ended == [e EXCEPT !.live = FALSE, !.flushing = FALSE]
<1>1. t.entries[i] \in Entry
  BY DEF Table
<1>2. /\ e \in Entry /\ e.vol = v
      /\ e.fence = t.entries[i].fence /\ e.holder = t.entries[i].holder
  BY <1>1 DEF Entry
<1>3. now + ttl \in Nat /\ e.fence + 1 \in Nat
  BY <1>2 DEF Entry
<1> HIDE DEF e
<1>4. /\ new \in Entry /\ new.vol = v /\ new.holder = h
      /\ new.fence = t.entries[i].fence + 1
  BY <1>2, <1>3 DEF Entry
<1>5. /\ kept \in Entry /\ kept.vol = v
      /\ kept.fence = t.entries[i].fence /\ kept.holder = t.entries[i].holder
  BY <1>2, <1>3 DEF Entry
<1>6. /\ ended \in Entry /\ ended.vol = v
      /\ ended.fence = t.entries[i].fence /\ ended.holder = t.entries[i].holder
  BY <1>2 DEF Entry
<1>7. Remembers(t, Put(t, i, e))
  BY <1>2, PutAbove
<1>8. \A s \in {"Held", "Lost"} : Sound(t, v, h, Standing(Put(t, i, e), e, s, now))
  BY <1>2, <1>7, SoundStanding
<1>9. Sound(t, v, h, Granted(t, i, new))
  BY <1>4, PutAbove, SoundGranted DEF Granted
<1>10. ASSUME mine PROVE Sound(t, v, h, Granted(t, i, kept))
  BY <1>2, <1>5, <1>10, PutAbove, SoundGranted DEF Granted
<1>11. ASSUME mine
       PROVE Sound(t, v, h, Outcome(Put(t, i, ended), "Granted", e.fence, 0))
  <2>1. ended.fence = e.fence /\ ended.holder = h
    BY <1>2, <1>6, <1>11
  <2> QED BY <1>6, <2>1, PutAbove, SoundGranted
<1>12. ApplyKnown(t, i, op, h, now, ttl) =
        CASE op = "acquire" /\ held /\ ~mine -> Standing(Put(t, i, e), e, "Held", now)
          [] op = "acquire" /\ ~held -> Granted(t, i, new)
          [] op \in {"acquire", "renew"} /\ mine /\ held -> Granted(t, i, kept)
          [] op = "release" /\ mine -> Outcome(Put(t, i, ended), "Granted", e.fence, 0)
          [] OTHER -> Standing(Put(t, i, e), e, "Lost", now)
  BY DEF ApplyKnown, e
<1> HIDE DEF new, kept, ended, mine, held, v
<1>13. CASE op = "acquire" /\ held /\ ~mine
  BY <1>8, <1>12, <1>13 DEF v
<1>14. CASE op = "acquire" /\ ~held
  BY <1>9, <1>12, <1>14 DEF v
<1>15. CASE op \in {"acquire", "renew"} /\ mine /\ held
  BY <1>10, <1>12, <1>15 DEF v
<1>16. CASE op = "release" /\ mine
  BY <1>11, <1>12, <1>16 DEF v
<1>17. CASE /\ ~(op = "acquire" /\ held /\ ~mine) /\ ~(op = "acquire" /\ ~held)
            /\ ~(op \in {"acquire", "renew"} /\ mine /\ held)
            /\ ~(op = "release" /\ mine)
  BY <1>8, <1>12, <1>17 DEF v
<1> QED BY <1>13, <1>14, <1>15, <1>16, <1>17

\* A volume with no entry is granted a fence above the floor, in a free slot.
LEMMA FreshEntry ==
    ASSUME NEW c \in Table, Distinct(c), NEW i \in Slot, c.entries[i].vol = NoVolume,
           NEW e \in Entry, e.vol \in Volume, ~Known(c, e.vol),
           e.fence = c.fenceFloor + 1
    PROVE  Remembers(c, Put(c, i, e))
<1> DEFINE u == Put(c, i, e)
<1>0. c.fenceFloor \in Nat
  BY DEF Table
<1>1. u \in Table /\ u.fenceFloor = c.fenceFloor
  BY PutTable
<1>2. \A j \in Slot : u.entries[j] = IF j = i THEN e ELSE c.entries[j]
  BY PutEntries
<1> HIDE DEF u
<1>3. Distinct(u)
  BY <1>2 DEF Distinct, Known, Naming
<1>4. ASSUME NEW g \in Writer, Covered(c, g) PROVE Covered(u, g)
  <2>1. g.fence \in Nat /\ g.vol # NoVolume
    BY NoVolumeAssumption DEF Writer
  <2>2. ASSUME NEW j \in Slot, u.entries[j].vol = g.vol PROVE Above(u.entries[j], g)
    <3>1. CASE j = i
      <4>1. g.fence <= c.fenceFloor
        BY <1>2, <1>4, <2>2, <3>1 DEF Covered
      <4> QED BY <1>0, <1>2, <2>1, <3>1, <4>1 DEF Above
    <3>2. CASE j # i
      BY <1>2, <1>4, <2>2, <3>2 DEF Covered
    <3> QED BY <3>1, <3>2
  <2>3. ~Known(u, g.vol) => g.fence <= u.fenceFloor
    <3>1. ~Known(u, g.vol) => ~Known(c, g.vol)
      BY <1>2, <2>1 DEF Known, Naming
    <3> QED BY <1>1, <1>4, <3>1 DEF Covered
  <2> QED BY <2>2, <2>3 DEF Covered
<1>5. Remembers(c, u)
  BY <1>1, <1>3, <1>4 DEF Remembers
<1> QED BY <1>5 DEF u

\* So is one on a volume it does not know (apply_absent), though the entry of
\* another volume may be recycled for it.
LEMMA ApplyAbsentSound ==
    ASSUME NEW t \in Table, Distinct(t), NEW op, NEW v \in Volume, ~Known(t, v),
           NEW h \in Holder, NEW now \in Nat, NEW ttl \in Nat
    PROVE  Sound(t, v, h, ApplyAbsent(t, op, v, h, now, ttl))
<1> DEFINE i == First(Claimable(t, now))
           c == ClaimSlot(t, i)
           e == [vol |-> v, live |-> TRUE, holder |-> h,
                 fence |-> c.fenceFloor + 1, expires |-> now + ttl,
                 stamp |-> now, flushing |-> FALSE]
<1>1. \A status : status # "Granted" => Sound(t, v, h, Bare(t, status))
  BY RemembersRefl, SoundBare
<1>2. ASSUME Claimable(t, now) # {} PROVE Sound(t, v, h, Granted(c, i, e))
  <2>1. Claimable(t, now) \in SUBSET Slot
    BY DEF Claimable, FreeSlots, Recyclable
  <2>2. i \in Claimable(t, now) /\ i \in Slot
    BY <1>2, <2>1, FirstIn
  <2> HIDE DEF i
  <2>3. /\ Remembers(t, c) /\ c.entries[i].vol = NoVolume /\ ~Known(c, v)
    <3>1. CASE FreeSlots(t) # {}
      <4>1. c = t /\ t.entries[i].vol = NoVolume
        BY <2>2, <3>1 DEF ClaimSlot, Claimable, FreeSlots
      <4> QED BY <4>1, RemembersRefl
    <3>2. CASE FreeSlots(t) = {}
      BY <2>2, <3>2, RecycleRemembers DEF ClaimSlot
    <3> QED BY <3>1, <3>2
  <2> HIDE DEF c
  <2>4. c \in Table /\ Distinct(c) /\ c.fenceFloor \in Nat
    BY <2>3 DEF Remembers, Table
  <2>5. e \in Entry /\ e.vol = v /\ e.holder = h /\ e.fence = c.fenceFloor + 1
    BY <2>4 DEF Entry
  <2> HIDE DEF e
  <2>6. Remembers(c, Put(c, i, e))
    BY <2>2, <2>3, <2>4, <2>5, FreshEntry
  <2>7. Remembers(t, Put(c, i, e))
    BY <2>3, <2>6 DEF Remembers
  <2> QED BY <2>2, <2>4, <2>5, <2>7, SoundGranted DEF Granted
<1>3. ApplyAbsent(t, op, v, h, now, ttl) =
        IF now <= t.stampFloor THEN Bare(t, "Stale")
        ELSE IF op # "acquire" THEN Bare(t, "Lost")
        ELSE IF Claimable(t, now) = {} THEN Bare(t, "Busy")
        ELSE Granted(c, i, e)
  BY DEF ApplyAbsent
<1> HIDE DEF i, c, e
<1> QED BY <1>1, <1>2, <1>3

\* Every lease record: the table forgets no fence, and a grant's fence and
\* holder are the ones its entry stands at.
LEMMA LeaseApplySound ==
    ASSUME NEW t \in Table, Distinct(t), NEW op, NEW v \in Volume,
           NEW h \in Holder, NEW now \in Nat, NEW ttl \in Nat
    PROVE  Sound(t, v, h, LeaseApply(t, op, v, h, now, ttl))
<1>1. \A status : status # "Granted" => Sound(t, v, h, Bare(t, status))
  BY RemembersRefl, SoundBare
<1>2. ASSUME ~Known(t, v) PROVE Sound(t, v, h, ApplyAbsent(t, op, v, h, now, ttl))
  BY <1>2, ApplyAbsentSound
<1>3. ASSUME Known(t, v)
      PROVE  Sound(t, v, h, ApplyKnown(t, SlotOf(t, v), op, h, now, ttl))
  <2>1. SlotOf(t, v) \in Slot /\ t.entries[SlotOf(t, v)].vol = v
    BY <1>3, SlotOfNames
  <2> QED BY <2>1, ApplyKnownSound
<1> QED BY <1>1, <1>2, <1>3 DEF LeaseApply

-------------------------------------------------------------------------------
(***************************************************************************)
(* Type correctness.                                                       *)
(***************************************************************************)

\* What every action but LeaseRecord does to the table.
LEMMA VolumeTable ==
    ASSUME TypeOK, NEW v \in Volume, NEW h \in Holder, NEW now \in Nat,
           NEW open \in BOOLEAN, Fresh(leases, v, now)
    PROVE  /\ SameFences(leases, Touch(leases, v, now))
           /\ SameFences(leases, SetFlushing(Touch(leases, v, now), v, h, open))
<1>1. leases \in Table /\ Known(leases, v)
  BY DEF TypeOK, Fresh
<1>2. SameFences(leases, Touch(leases, v, now))
  BY <1>1, TouchSame
<1>3. Touch(leases, v, now) \in Table
  BY <1>2 DEF SameFences
<1>4. SameFences(Touch(leases, v, now), SetFlushing(Touch(leases, v, now), v, h, open))
  BY <1>3, SetFlushingSame
<1> QED BY <1>2, <1>4 DEF SameFences

\* The inductive invariant.  FenceUnique alone is not inductive: that no
\* fence is issued twice rests on the table remembering, in an entry or in
\* its floor, every fence it has issued.
IInv ==
    /\ TypeOK
    /\ Distinct(leases)
    /\ \A g \in grants : Covered(leases, g)
    /\ FenceUnique

\* The invariant holds of an empty table.
LEMMA InitIInv == Init => IInv
<1> SUFFICES ASSUME Init PROVE IInv
  OBVIOUS
<1> USE DEF Init
<1>1. EmptyEntry \in Entry
  BY DEF EmptyEntry, Entry
<1>2. EmptyTable \in Table
  BY <1>1 DEF EmptyTable, Table
<1>3. \A i \in Slot : leases.entries[i].vol = NoVolume
  BY DEF EmptyTable, EmptyEntry
<1>4. Distinct(leases)
  BY <1>3 DEF Distinct
<1>5. bound \in [Volume -> Binding]
  BY DEF Binding, Unbound
<1>6. TypeOK
  BY <1>2, <1>5 DEF TypeOK, Sweep
<1> QED BY <1>4, <1>6 DEF IInv, FenceUnique

\* A step that issues nothing and keeps the table's fences keeps what it
\* remembers.
LEMMA NoGrant ==
    ASSUME IInv, TypeOK', SameFences(leases, leases'), grants' = grants
    PROVE  IInv'
<1>1. leases \in Table /\ Distinct(leases) /\ grants \in SUBSET Writer
  BY DEF IInv, TypeOK
<1>2. Distinct(leases') /\ \A g \in Writer : Covered(leases, g) => Covered(leases', g)
  BY <1>1, SameFencesCovered
<1>3. \A g \in grants' : Covered(leases', g)
  BY <1>1, <1>2 DEF IInv
<1> QED BY <1>2, <1>3 DEF IInv, FenceUnique

\* A step that leaves the table keeps its fences.
LEMMA SameFencesRefl == TypeOK => SameFences(leases, leases)
  BY DEF TypeOK, SameFences

\* OP_LEASE preserves the invariant: the one action that issues fences.
LEMMA LeaseRecordIInv ==
    ASSUME IInv, NEW op \in LeaseOps, NEW v \in Volume, NEW h \in Holder,
           NEW now \in 0..MaxNow, NEW ttl \in 0..(TtlMax + 1),
           LeaseRecord(op, v, h, now, ttl)
    PROVE  IInv'
<1> DEFINE out == LeaseApply(leases, op, v, h, now, ttl)
           w == [vol |-> v, fence |-> out.fence, holder |-> h]
<1>1. leases \in Table /\ Distinct(leases) /\ grants \in SUBSET Writer
  BY DEF IInv, TypeOK
<1>2. now \in Nat /\ ttl \in Nat
  BY BoundsAssumption, TtlMaxAssumption
<1>3. Sound(leases, v, h, out)
  BY <1>1, <1>2, LeaseApplySound
<1>4. /\ leases' = out.table
      /\ grants' = IF out.status = "Granted" THEN grants \cup {w} ELSE grants
      /\ judged' = [judged EXCEPT ![v] = IF out.table = leases THEN @ ELSE now]
      /\ UNCHANGED <<bound, reserved, sweep, writer, writing, exposed>>
  BY DEF LeaseRecord
<1> HIDE DEF out
<1>5. leases' \in Table /\ Distinct(leases')
      /\ \A g \in Writer : Covered(leases, g) => Covered(leases', g)
  BY <1>3, <1>4 DEF Sound, Remembers
<1>6. w \in Writer
  BY <1>3 DEF Sound, Writer
<1>7. TypeOK'
  <2>1. judged' \in [Volume -> Nat]
    BY <1>2, <1>4 DEF IInv, TypeOK
  <2>2. grants' \in SUBSET Writer
    BY <1>1, <1>4, <1>6
  <2> QED BY <1>4, <1>5, <2>1, <2>2 DEF IInv, TypeOK
<1>8. \A g \in grants : Covered(leases', g)
  BY <1>1, <1>5 DEF IInv
<1>9. CASE out.status = "Granted"
  <2>1. PICK i \in Slot : /\ leases'.entries[i].vol = v
                          /\ leases'.entries[i].fence = out.fence
                          /\ leases'.entries[i].holder = h
    BY <1>3, <1>4, <1>9 DEF Sound, Stands
  <2>2. Covered(leases', w)
    <3>1. \A j \in Slot : leases'.entries[j].vol = v => j = i
      BY <1>5, <2>1, NoVolumeAssumption DEF Distinct
    <3>2. Known(leases', v)
      BY <2>1 DEF Known, Naming
    <3> QED BY <2>1, <3>1, <3>2 DEF Covered, Above
  <2>3. \A g \in grants : g.vol = v /\ g.fence = out.fence => g.holder = h
    <3> SUFFICES ASSUME NEW g \in grants, g.vol = v, g.fence = out.fence
                 PROVE  g.holder = h
      OBVIOUS
    <3>1. Above(leases'.entries[i], g)
      BY <1>8, <2>1 DEF Covered
    <3>2. out.fence \in Nat
      BY <1>3 DEF Sound
    <3> QED BY <2>1, <3>1, <3>2 DEF Above
  <2>4. FenceUnique'
    BY <1>4, <1>9, <2>3 DEF IInv, FenceUnique
  <2> QED BY <1>4, <1>5, <1>7, <1>8, <1>9, <2>2, <2>4 DEF IInv
<1>10. CASE out.status # "Granted"
  BY <1>4, <1>5, <1>7, <1>8, <1>10 DEF IInv, FenceUnique
<1> QED BY <1>9, <1>10

\* What every volume record has in common: its writer was granted its fence,
\* the table keeps its fences, and the judged stamp moves to a natural.
LEMMA JudgeKeeps ==
    ASSUME IInv, NEW v \in Volume, NEW h \in Holder, NEW f \in 1..MaxFence,
           NEW now \in 0..MaxNow, Judge(v, h, f, now)
    PROVE  /\ [vol |-> v, fence |-> f, holder |-> h] \in Writer
           /\ SameFences(leases, Touch(leases, v, now))
           /\ \A open \in BOOLEAN :
                 SameFences(leases, SetFlushing(Touch(leases, v, now), v, h, open))
           /\ judged' \in [Volume -> Nat]
           /\ UNCHANGED <<reserved, sweep, grants>>
<1>1. now \in Nat /\ f \in Nat
  BY BoundsAssumption
<1>2. TypeOK /\ Fresh(leases, v, now) /\ judged' = [judged EXCEPT ![v] = now]
      /\ UNCHANGED <<reserved, sweep, grants>>
  BY DEF IInv, Judge
<1>3. SameFences(leases, Touch(leases, v, now))
  BY <1>1, <1>2, VolumeTable
<1>4. \A open \in BOOLEAN :
         SameFences(leases, SetFlushing(Touch(leases, v, now), v, h, open))
  BY <1>1, <1>2, VolumeTable
<1>5. judged' \in [Volume -> Nat]
  BY <1>1, <1>2 DEF TypeOK
<1>6. [vol |-> v, fence |-> f, holder |-> h] \in Writer
  BY <1>1 DEF Writer
<1> QED BY <1>2, <1>3, <1>4, <1>5, <1>6

\* VOLUME_BEGIN preserves the invariant.
LEMMA VolumeBeginIInv ==
    ASSUME IInv, NEW v \in Volume, NEW h \in Holder, NEW f \in 1..MaxFence,
           NEW now \in 0..MaxNow, VolumeBegin(v, h, f, now)
    PROVE  IInv'
<1> DEFINE w == [vol |-> v, fence |-> f, holder |-> h]
<1>1. Judge(v, h, f, now)
  BY DEF VolumeBegin
<1>2. /\ w \in Writer
      /\ SameFences(leases, Touch(leases, v, now))
      /\ SameFences(leases, SetFlushing(Touch(leases, v, now), v, h, TRUE))
      /\ judged' \in [Volume -> Nat]
      /\ UNCHANGED <<reserved, sweep, grants>>
  BY <1>1, JudgeKeeps
<1>3. /\ leases' \in {Touch(leases, v, now), SetFlushing(Touch(leases, v, now), v, h, TRUE)}
      /\ writing' \in {writing, writing \cup {w}}
      /\ exposed' \in {exposed, exposed \ {w}}
      /\ UNCHANGED <<bound, writer>>
  BY DEF VolumeBegin
<1> HIDE DEF w
<1>4. SameFences(leases, leases')
  BY <1>2, <1>3
<1>5. TypeOK'
  BY <1>2, <1>3, <1>4 DEF IInv, TypeOK, SameFences
<1> QED BY <1>2, <1>4, <1>5, NoGrant

\* VOLUME_ABORT preserves the invariant.
LEMMA VolumeAbortIInv ==
    ASSUME IInv, NEW v \in Volume, NEW h \in Holder, NEW f \in 1..MaxFence,
           NEW now \in 0..MaxNow, VolumeAbort(v, h, f, now)
    PROVE  IInv'
<1>1. Judge(v, h, f, now)
  BY DEF VolumeAbort
<1>2. /\ SameFences(leases, Touch(leases, v, now))
      /\ SameFences(leases, SetFlushing(Touch(leases, v, now), v, h, FALSE))
      /\ judged' \in [Volume -> Nat]
      /\ UNCHANGED <<reserved, sweep, grants>>
  BY <1>1, JudgeKeeps
<1>3. /\ leases' \in {Touch(leases, v, now), SetFlushing(Touch(leases, v, now), v, h, FALSE)}
      /\ UNCHANGED <<bound, writer, writing, exposed>>
  BY DEF VolumeAbort
<1>4. SameFences(leases, leases')
  BY <1>2, <1>3
<1>5. TypeOK'
  BY <1>2, <1>3, <1>4 DEF IInv, TypeOK, SameFences
<1> QED BY <1>2, <1>4, <1>5, NoGrant

\* VOLUME_COMMIT preserves the invariant.
LEMMA VolumeCommitIInv ==
    ASSUME IInv, NEW v \in Volume, NEW h \in Holder, NEW f \in 1..MaxFence,
           NEW now \in 0..MaxNow, NEW r \in Root, NEW expected \in 0..(MaxRev - 1),
           NEW room \in BOOLEAN, VolumeCommit(v, h, f, now, r, expected, room)
    PROVE  IInv'
<1> DEFINE w == [vol |-> v, fence |-> f, holder |-> h]
           b == [kind |-> "volume", rev |-> expected + 1, root |-> r,
                 retained |-> FALSE]
<1>1. Judge(v, h, f, now)
  BY DEF VolumeCommit
<1>2. /\ w \in Writer
      /\ SameFences(leases, Touch(leases, v, now))
      /\ SameFences(leases, SetFlushing(Touch(leases, v, now), v, h, FALSE))
      /\ judged' \in [Volume -> Nat]
      /\ UNCHANGED <<reserved, sweep, grants>>
  BY <1>1, JudgeKeeps
<1>3. /\ leases' \in {Touch(leases, v, now), SetFlushing(Touch(leases, v, now), v, h, FALSE)}
      /\ bound' \in {bound, [bound EXCEPT ![v] = b]}
      /\ writer' \in {writer, [writer EXCEPT ![v] = w]}
      /\ UNCHANGED <<writing, exposed>>
  BY DEF VolumeCommit
<1>4. b \in Binding
  <2>1. expected + 1 \in Nat
    BY BoundsAssumption
  <2> QED BY <2>1 DEF Binding
<1> HIDE DEF w, b
<1>5. SameFences(leases, leases')
  BY <1>2, <1>3
<1>6. bound' \in [Volume -> Binding] /\ writer' \in [Volume -> Writer \cup {NoWriter}]
  BY <1>2, <1>3, <1>4 DEF IInv, TypeOK
<1>7. TypeOK'
  BY <1>2, <1>3, <1>5, <1>6 DEF IInv, TypeOK, SameFences
<1> QED BY <1>2, <1>5, <1>7, NoGrant

\* VOLUME_DELETE preserves the invariant.
LEMMA VolumeDeleteIInv ==
    ASSUME IInv, NEW v \in Volume, NEW h \in Holder, NEW f \in 1..MaxFence,
           NEW now \in 0..MaxNow, NEW expected \in 0..(MaxRev - 1),
           NEW room \in BOOLEAN, VolumeDelete(v, h, f, now, expected, room)
    PROVE  IInv'
<1> DEFINE b == [kind |-> "tombstone", rev |-> expected + 1, root |-> NoRoot,
                 retained |-> FALSE]
<1>1. Judge(v, h, f, now)
  BY DEF VolumeDelete
<1>2. /\ SameFences(leases, Touch(leases, v, now))
      /\ SameFences(leases, SetFlushing(Touch(leases, v, now), v, h, FALSE))
      /\ judged' \in [Volume -> Nat]
      /\ UNCHANGED <<reserved, sweep, grants>>
  BY <1>1, JudgeKeeps
<1>3. /\ leases' \in {Touch(leases, v, now), SetFlushing(Touch(leases, v, now), v, h, FALSE)}
      /\ bound' \in {bound, [bound EXCEPT ![v] = b]}
      /\ UNCHANGED <<writer, writing, exposed>>
  BY DEF VolumeDelete
<1>4. b \in Binding
  <2>1. expected + 1 \in Nat
    BY BoundsAssumption
  <2> QED BY <2>1 DEF Binding
<1> HIDE DEF b
<1>5. SameFences(leases, leases')
  BY <1>2, <1>3
<1>6. bound' \in [Volume -> Binding]
  BY <1>3, <1>4 DEF IInv, TypeOK
<1>7. TypeOK'
  BY <1>2, <1>3, <1>5, <1>6 DEF IInv, TypeOK, SameFences
<1> QED BY <1>2, <1>5, <1>7, NoGrant

\* A plain bind preserves the invariant.
LEMMA PlainBindIInv ==
    ASSUME IInv, NEW v \in Volume, NEW retain \in BOOLEAN, PlainBind(v, retain)
    PROVE  IInv'
<1> DEFINE b == [kind |-> "object", rev |-> bound[v].rev + 1, root |-> NoRoot,
                 retained |-> retain]
<1>1. bound[v] \in Binding
  BY DEF IInv, TypeOK
<1>2. bound[v].rev + 1 \in Nat
  BY <1>1 DEF Binding
<1>3. b \in Binding
  BY <1>2 DEF Binding
<1>4. /\ bound' = [bound EXCEPT ![v] = b]
      /\ UNCHANGED <<leases, reserved, sweep, grants, judged, writer, writing, exposed>>
  BY DEF PlainBind
<1> HIDE DEF b
<1>5. TypeOK'
  BY <1>3, <1>4 DEF IInv, TypeOK
<1>6. SameFences(leases, leases')
  BY <1>4, SameFencesRefl DEF IInv
<1> QED BY <1>4, <1>5, <1>6, NoGrant

\* A reservation preserves the invariant: ending flushes moves no fence.
LEMMA SweepReserveIInv ==
    ASSUME IInv, NEW b \in Body, NEW now \in 0..MaxNow, SweepReserve(b, now)
    PROVE  IInv'
<1>1. /\ leases' = EndExpiredFlushes(leases, now)
      /\ reserved' \in {reserved, reserved \cup {b}}
      /\ sweep' \in {sweep, [at |-> "reserved", body |-> b]}
      /\ UNCHANGED <<bound, grants, judged, writer, writing, exposed>>
  BY DEF SweepReserve
<1>2. leases \in Table
  BY DEF IInv, TypeOK
<1>3. SameFences(leases, leases')
  BY <1>1, <1>2, EndExpiredSame
<1>4. sweep' \in Sweep
  BY <1>1 DEF IInv, TypeOK, Sweep
<1>5. TypeOK'
  BY <1>1, <1>3, <1>4 DEF IInv, TypeOK, SameFences
<1> QED BY <1>1, <1>3, <1>5, NoGrant

\* The later steps of the sweep preserve the invariant: they leave the table.
LEMMA SweepStepIInv ==
    ASSUME IInv,
           SweepCheck \/ SweepDelete \/ (\E forwarded \in BOOLEAN : SweepRelease(forwarded))
    PROVE  IInv'
<1>1. TypeOK /\ sweep \in Sweep
  BY DEF IInv, TypeOK
<1>2. SameFences(leases, leases)
  BY <1>1, SameFencesRefl
<1>3. CASE SweepCheck
  <2>1. \A a \in {"idle", "reserved", "proven", "done"} : [sweep EXCEPT !.at = a] \in Sweep
    BY <1>1 DEF Sweep
  <2>2. sweep' \in Sweep
    BY <1>3, <2>1 DEF SweepCheck
  <2>3. UNCHANGED <<leases, bound, reserved, grants, judged, writer, writing, exposed>>
    BY <1>3 DEF SweepCheck
  <2>4. TypeOK'
    BY <1>1, <2>2, <2>3 DEF TypeOK
  <2> QED BY <1>2, <2>3, <2>4, NoGrant
<1>4. CASE SweepDelete
  <2>1. [sweep EXCEPT !.at = "done"] \in Sweep
    BY <1>1 DEF Sweep
  <2>2. sweep' \in Sweep /\ exposed' = exposed \cup writing
    BY <1>4, <2>1 DEF SweepDelete
  <2>3. UNCHANGED <<leases, bound, reserved, grants, judged, writer, writing>>
    BY <1>4 DEF SweepDelete
  <2>4. TypeOK'
    BY <1>1, <2>2, <2>3 DEF TypeOK
  <2> QED BY <1>2, <2>3, <2>4, NoGrant
<1>5. CASE \E forwarded \in BOOLEAN : SweepRelease(forwarded)
  <2>1. sweep' \in Sweep /\ reserved' \in SUBSET reserved
    BY <1>5 DEF SweepRelease, Sweep
  <2>2. UNCHANGED <<leases, bound, grants, judged, writer, writing, exposed>>
    BY <1>5 DEF SweepRelease
  <2>3. TypeOK'
    BY <1>1, <2>1, <2>2 DEF TypeOK
  <2> QED BY <1>2, <2>2, <2>3, NoGrant
<1> QED BY <1>3, <1>4, <1>5

\* Every step preserves the invariant.
LEMMA NextIInv == IInv /\ [Next]_vars => IInv'
<1> SUFFICES ASSUME IInv, [Next]_vars PROVE IInv'
  OBVIOUS
<1>1. CASE UNCHANGED vars
  <2>1. UNCHANGED <<leases, bound, reserved, sweep, grants, judged, writer, writing, exposed>>
    BY <1>1 DEF vars
  <2>2. TypeOK'
    BY <2>1 DEF IInv, TypeOK
  <2>3. SameFences(leases, leases')
    BY <2>1, SameFencesRefl DEF IInv
  <2> QED BY <2>1, <2>2, <2>3, NoGrant
<1>2. ASSUME NEW v \in Volume, NEW h \in Holder, NEW now \in 0..MaxNow,
             NEW op \in LeaseOps, NEW ttl \in 0..(TtlMax + 1),
             LeaseRecord(op, v, h, now, ttl)
      PROVE  IInv'
  BY <1>2, LeaseRecordIInv
<1>3. ASSUME NEW v \in Volume, NEW h \in Holder, NEW now \in 0..MaxNow,
             NEW f \in 1..MaxFence,
             \/ VolumeBegin(v, h, f, now)
             \/ VolumeAbort(v, h, f, now)
             \/ \E expected \in 0..(MaxRev - 1), room \in BOOLEAN :
                  \/ VolumeDelete(v, h, f, now, expected, room)
                  \/ \E r \in Root : VolumeCommit(v, h, f, now, r, expected, room)
      PROVE  IInv'
  BY <1>3, VolumeBeginIInv, VolumeAbortIInv, VolumeDeleteIInv, VolumeCommitIInv
<1>4. ASSUME NEW v \in Volume, NEW retain \in BOOLEAN, PlainBind(v, retain)
      PROVE  IInv'
  BY <1>4, PlainBindIInv
<1>5. ASSUME NEW b \in Body, NEW now \in 0..MaxNow, SweepReserve(b, now)
      PROVE  IInv'
  BY <1>5, SweepReserveIInv
<1>6. ASSUME SweepCheck \/ SweepDelete \/ \E forwarded \in BOOLEAN : SweepRelease(forwarded)
      PROVE  IInv'
  BY <1>6, SweepStepIInv
<1> QED BY <1>1, <1>2, <1>3, <1>4, <1>5, <1>6 DEF Next

-------------------------------------------------------------------------------
(***************************************************************************)
(* The theorems.                                                           *)
(***************************************************************************)

\* The invariant holds throughout every behaviour.
THEOREM Inductive == Spec => []IInv
  BY InitIInv, NextIInv, PTL DEF Spec

\* The lease table and all the state around it keep their types.
THEOREM TypeCorrect == Spec => []TypeOK
<1>1. IInv => TypeOK
  BY DEF IInv
<1> QED BY <1>1, Inductive, PTL

\* No fence of a volume is ever issued to two holders, for any number of
\* volumes, holders and slots, any stamps and any order of records.
THEOREM FencesUnique == Spec => []FenceUnique
<1>1. IInv => FenceUnique
  BY DEF IInv
<1> QED BY <1>1, Inductive, PTL

\* Only a commit moves a volume's root.
LEMMA CommitStep ==
    ASSUME IInv, Next, NEW v \in Volume, bound'[v] # bound[v], bound'[v].kind = "volume"
    PROVE  \E u \in Volume, h \in Holder, now \in 0..MaxNow, f \in 1..MaxFence,
              r \in Root, expected \in 0..(MaxRev - 1), room \in BOOLEAN :
                VolumeCommit(u, h, f, now, r, expected, room)
<1>0. bound \in [Volume -> Binding]
  BY DEF IInv, TypeOK
<1>1. \A u \in Volume, h \in Holder, now \in 0..MaxNow, f \in 1..MaxFence,
         expected \in 0..(MaxRev - 1), room \in BOOLEAN :
         VolumeDelete(u, h, f, now, expected, room) => FALSE
  BY <1>0 DEF VolumeDelete
<1>2. \A u \in Volume, retain \in BOOLEAN : PlainBind(u, retain) => FALSE
  BY <1>0 DEF PlainBind
<1>3. \A op, u, h, now, ttl : LeaseRecord(op, u, h, now, ttl) => bound' = bound
  BY DEF LeaseRecord
<1>4. /\ \A u, h, f, now : VolumeBegin(u, h, f, now) => bound' = bound
      /\ \A u, h, f, now : VolumeAbort(u, h, f, now) => bound' = bound
  <2>1. ASSUME NEW u, NEW h, NEW f, NEW now, VolumeBegin(u, h, f, now)
        PROVE  bound' = bound
    BY <2>1 DEF VolumeBegin
  <2>2. ASSUME NEW u, NEW h, NEW f, NEW now, VolumeAbort(u, h, f, now)
        PROVE  bound' = bound
    BY <2>2 DEF VolumeAbort
  <2> QED BY <2>1, <2>2
<1>5. \A b, now : SweepReserve(b, now) => bound' = bound
  BY DEF SweepReserve
<1>6. SweepCheck \/ SweepDelete \/ (\E forwarded \in BOOLEAN : SweepRelease(forwarded))
         => bound' = bound
  BY DEF SweepCheck, SweepDelete, SweepRelease
<1> QED BY <1>1, <1>2, <1>3, <1>4, <1>5, <1>6 DEF Next

\* A step that moves a volume's root is a commit under the highest fence
\* ever issued for that volume: a replaced writer never moves it.
THEOREM CommitsFenced == Spec => CommitFenced
<1> DEFINE Fenced(v) == (bound'[v] # bound[v] /\ bound'[v].kind = "volume") =>
                           \A g \in grants : g.vol = v => g.fence <= writer'[v].fence
<1>1. IInv /\ [Next]_vars => [\A v \in Volume : Fenced(v)]_vars
  <2> SUFFICES ASSUME IInv, Next, NEW v \in Volume, bound'[v] # bound[v],
                      bound'[v].kind = "volume", NEW g \in grants, g.vol = v
               PROVE  g.fence <= writer'[v].fence
    BY DEF vars
  <2>1. bound \in [Volume -> Binding] /\ g.fence \in Nat /\ leases \in Table
    BY DEF IInv, TypeOK, Writer
  <2>2. PICK u \in Volume, h \in Holder, now \in 0..MaxNow, f \in 1..MaxFence,
             r \in Root, expected \in 0..(MaxRev - 1), room \in BOOLEAN :
               VolumeCommit(u, h, f, now, r, expected, room)
    BY CommitStep
  <2> DEFINE t == Touch(leases, u, now)
             w == [vol |-> u, fence |-> f, holder |-> h]
  <2>3. u = v
    BY <2>1, <2>2 DEF VolumeCommit
  <2>4. /\ Judge(v, h, f, now) /\ Holds(t, v, h, f, now)
        /\ writer' = [writer EXCEPT ![v] = w]
    BY <2>2, <2>3 DEF VolumeCommit, CommitAdmitted
  <2> HIDE DEF w
  <2>5. writer'[v].fence = f
    BY <2>4 DEF IInv, TypeOK, w
  <2>6. SameFences(leases, t)
    BY <2>3, <2>4, JudgeKeeps
  <2> HIDE DEF t
  <2>7. t \in Table /\ Known(t, v) /\ t.entries[SlotOf(t, v)].fence = f
    BY <2>4, <2>6 DEF Holds, SameGeneration, Lease, SameFences
  <2>8. SlotOf(t, v) \in Slot /\ t.entries[SlotOf(t, v)].vol = v
    BY <2>7, SlotOfNames
  <2>9. Covered(t, g)
    BY <2>1, <2>6, SameFencesCovered DEF IInv, TypeOK
  <2>10. g.fence <= f
    BY <2>1, <2>7, <2>8, <2>9 DEF Covered, Above
  <2> QED BY <2>5, <2>10
<1>2. IInv /\ [Next]_vars => [\A v \in Volume :
          (bound'[v] # bound[v] /\ bound'[v].kind = "volume") =>
              \A g \in grants : g.vol = v => g.fence <= writer'[v].fence]_vars
  BY <1>1
<1> QED BY <1>2, Inductive, PTL DEF Spec, CommitFenced
===============================================================================
