----------------------------- MODULE NamespaceOps -----------------------------
(***************************************************************************)
(* What one logged record decides about a key, and what it does to the     *)
(* arena.  Translated from apply_op and the functions it calls in          *)
(* namespace_pic_body.rs, and from PicNamespaceState in                    *)
(* namespace_pic_state.rs.                                                 *)
(*                                                                         *)
(* A key (namespace root and path) is a number, so that keys are ordered   *)
(* as the snapshot orders them.  A binding's content is its object id; its *)
(* stamp, size, content type and key reference change with the id and are  *)
(* left out.  Which slot of the arena a key sits in is left out too: where *)
(* the code scans for the first slot that may be evicted, any may be.      *)
(***************************************************************************)
EXTENDS Naturals, FiniteSets

CONSTANTS
    Keys,        \* how many keys there are
    Oid,         \* object ids
    NoOid,       \* the id of a tombstone or an absent key
    Cap,         \* ARENA_CAPACITY
    Until        \* retention times a record may carry, 0 for none

ASSUME KeysAssumption == Keys \in Nat \ {0}
ASSUME NoOidAssumption == NoOid \notin Oid
ASSUME CapAssumption == Cap \in Nat \ {0}
ASSUME UntilAssumption == Until \subseteq Nat /\ 0 \in Until

Key == 1..Keys

(***************************************************************************)
(* Bindings.                                                               *)
(***************************************************************************)
Binding == [kind : {"none", "object", "volume", "tombstone"}, rev : Nat,
            oid : Oid \cup {NoOid}, until : Until, hold : BOOLEAN]

Absent == [kind |-> "none", rev |-> 0, oid |-> NoOid, until |-> 0, hold |-> FALSE]

Tombstone(rev) ==
    [kind |-> "tombstone", rev |-> rev, oid |-> NoOid, until |-> 0, hold |-> FALSE]

Live(b) == b.kind \in {"object", "volume"}

\* retained_at: the time is the record's own stamp.
RetainedAt(b, now) == Live(b) /\ (b.hold \/ (b.until # 0 /\ now <= b.until))

(***************************************************************************)
(* Records.  expect is read under cond = "revision"; to is a rename's new  *)
(* name; kind is what a restore reinstates.  The slots' lock is left out:  *)
(* nothing in the tree sets it.                                            *)
(***************************************************************************)
Record == [op : {"bind", "unbind", "retain", "rename", "commit", "delete",
                 "restore", "reserve", "release"},
           key : Key, to : Key, rev : Nat, cond : {"any", "absent", "revision"},
           expect : Nat, oid : Oid \cup {NoOid}, kind : {"object", "volume", "tombstone"},
           until : Until, hold : {"set", "clear", "keep"}, now : Nat]

Blank == [op |-> "bind", key |-> 1, to |-> 1, rev |-> 0, cond |-> "any",
          expect |-> 0, oid |-> NoOid, kind |-> "object", until |-> 0,
          hold |-> "clear", now |-> 0]

(***************************************************************************)
(* The verdict of each record on the binding b its key holds: "apply", a   *)
(* success that changes nothing ("done"), or a refusal.  The order of the  *)
(* tests is the code's.                                                    *)
(***************************************************************************)
\* Mutant: the retention is not asked.
BindVerdictUnkept(b, r) ==
    IF b.kind = "volume" THEN "fenced"
    ELSE IF r.rev <= b.rev
         THEN IF Live(b) /\ r.rev = b.rev /\ r.oid = b.oid THEN "done" ELSE "stale"
    ELSE IF \/ r.cond = "absent" /\ Live(b)
            \/ r.cond = "revision" /\ b.rev # r.expect
         THEN "condition"
    ELSE "apply"

BindVerdict(b, r) ==
    IF b.kind = "volume" THEN "fenced"
    ELSE IF r.rev <= b.rev
         THEN IF Live(b) /\ r.rev = b.rev /\ r.oid = b.oid THEN "done" ELSE "stale"
    ELSE IF \/ r.cond = "absent" /\ Live(b)
            \/ r.cond = "revision" /\ b.rev # r.expect
         THEN "condition"
    ELSE IF RetainedAt(b, r.now) THEN "retained"
    ELSE "apply"

UnbindVerdict(b, r) ==
    IF b.kind = "volume" THEN "fenced"
    ELSE IF ~Live(b) THEN IF b.rev = r.rev /\ r.rev # 0 THEN "done" ELSE "rejected"
    ELSE IF r.rev <= b.rev THEN "stale"
    ELSE IF r.cond = "revision" /\ b.rev # r.expect THEN "condition"
    ELSE IF RetainedAt(b, r.now) THEN "retained"
    ELSE "apply"

NewUntil(b, r) == IF r.until # 0 THEN r.until ELSE b.until
NewHold(b, r) == IF r.hold = "keep" THEN b.hold ELSE r.hold = "set"

RetainVerdict(b, r) ==
    IF b = Absent THEN "condition"
    ELSE IF r.rev <= b.rev THEN "stale"
    ELSE IF b.rev # r.expect \/ b.kind = "tombstone" THEN "condition"
    ELSE IF b.kind = "volume" THEN "fenced"
    ELSE IF r.until # 0 /\ r.until < b.until THEN "retained"
    ELSE IF NewUntil(b, r) = b.until /\ NewHold(b, r) = b.hold THEN "done"
    ELSE "apply"

\* The revision a volume record compares with: 0 unless the key is bound.
LiveRev(b) == IF Live(b) THEN b.rev ELSE 0

\* VOLUME_COMMIT and VOLUME_DELETE by a writer that holds the volume's lease
\* with its flush open; VolumeLease decides that half.
CommitVerdict(b, r) ==
    IF b.kind = "volume" /\ b.oid = r.oid /\ b.rev = r.expect + 1 THEN "done"
    ELSE IF LiveRev(b) # r.expect THEN "condition"
    ELSE IF RetainedAt(b, r.now) THEN "retained"
    ELSE "apply"

DeleteVerdict(b, r) ==
    IF b.kind = "volume" /\ b.rev = r.expect THEN "apply" ELSE "condition"

RestoreVerdict(b, r) == IF r.rev <= b.rev THEN "done" ELSE "apply"

Verdict(b, r) ==
    CASE r.op = "bind"    -> BindVerdict(b, r)
      [] r.op = "unbind"  -> UnbindVerdict(b, r)
      [] r.op = "retain"  -> RetainVerdict(b, r)
      [] r.op = "commit"  -> CommitVerdict(b, r)
      [] r.op = "delete"  -> DeleteVerdict(b, r)
      [] r.op = "restore" -> RestoreVerdict(b, r)

\* The binding the record leaves when it applies to b.
Written(b, r) ==
    CASE r.op = "bind"   -> [kind |-> "object", rev |-> r.rev, oid |-> r.oid,
                             until |-> r.until, hold |-> r.hold = "set"]
      [] r.op = "unbind" -> Tombstone(r.rev)
      [] r.op = "retain" -> [b EXCEPT !.rev = r.rev, !.until = NewUntil(b, r),
                                      !.hold = NewHold(b, r)]
      [] r.op = "commit" -> [kind |-> "volume", rev |-> r.expect + 1,
                             oid |-> r.oid, until |-> 0, hold |-> FALSE]
      [] r.op = "delete" -> Tombstone(r.expect + 1)
      [] r.op = "restore" -> IF r.kind = "tombstone" THEN Tombstone(r.rev)
                             ELSE [kind |-> r.kind, rev |-> r.rev, oid |-> r.oid,
                                   until |-> r.until, hold |-> r.hold = "set"]

(***************************************************************************)
(* The arena: a bounded cache over the snapshot.  covered is snapshotted   *)
(* (the open generation holds this revision, so the slot may be evicted);  *)
(* emitted is cmp_emitted (the generation being written holds it).         *)
(***************************************************************************)
Slot == [b : Binding, covered : BOOLEAN, emitted : BOOLEAN]
Free == [b |-> Absent, covered |-> FALSE, emitted |-> FALSE]
EmptyArena == [k \in Key |-> Free]
EmptyGen == [k \in Key |-> Absent]

Occupied(a) == {k \in Key : a[k] # Free}
Dirty(a) == {k \in Occupied(a) : ~a[k].covered}
\* Mutant: any slot may be evicted.
EvictableAny(a) == Occupied(a)

Evictable(a) == {k \in Occupied(a) : a[k].covered}

\* current: the arena's entry, else the snapshot's record.
Current(a, gen, k) == IF a[k] # Free THEN a[k].b ELSE gen[k]

\* Mutant: a slot written over keeps its emit mark.
WrittenSlotMarked(s, b) == [s EXCEPT !.b = b, !.covered = FALSE]

WrittenSlot(s, b) == [b |-> b, covered |-> FALSE, emitted |-> FALSE]

\* bind, commit_bind and tombstone: in place, in a free slot, or behind one
\* eviction that spares the keys in spared.  No member: out of capacity.
Placed(a, k, b, spared) ==
    LET put(c) == [c EXCEPT ![k] = WrittenSlot(c[k], b)]
    IN  IF k \in Occupied(a) \/ Cardinality(Occupied(a)) < Cap
        THEN {put(a)}
        ELSE {put([a EXCEPT ![j] = Free]) : j \in Evictable(a) \ spared}

Outcome(a, status) == [arena |-> a, status |-> status]

\* rename, decided from the arena, behind the gates apply_op puts before it.
RenameTo(a, r) == IF a[r.to] # Free /\ a[r.to].b.rev >= r.rev THEN a[r.to].b.rev + 1
                  ELSE r.rev

\* A full arena evicts before a refused rename is tried again.
RetryArena(a, spared) ==
    LET victims == Evictable(a) \ {spared}
    IN  IF Cardinality(Occupied(a)) = Cap /\ victims # {}
        THEN {[a EXCEPT ![j] = Free] : j \in victims} ELSE {a}

Renamed(a, gen, r) ==
    LET from == Current(a, gen, r.key)
        to   == Current(a, gen, r.to)
    IN  IF from.kind = "volume" \/ to.kind = "volume" THEN {Outcome(a, "fenced")}
        ELSE IF RetainedAt(from, r.now) \/ RetainedAt(to, r.now)
             THEN {Outcome(a, "retained")}
        ELSE IF Live(to) THEN {Outcome(a, "rejected")}
        ELSE IF ~Live(a[r.key].b)
             THEN {Outcome(e, "rejected") : e \in RetryArena(a, r.key)}
        ELSE LET moved == [from EXCEPT !.rev = RenameTo(a, r)]
                 placed == Placed(a, r.to, moved, {r.key})
             IN  IF placed = {} THEN {Outcome(a, "noroom")}
                 ELSE {Outcome([p EXCEPT ![r.key] = WrittenSlot(p[r.key], Tombstone(r.rev))],
                               "ok") : p \in placed}

\* apply_op for every record that names a key: the arenas it may leave and
\* the answer.  reserved is the set of ids held for deletion.
Applied(a, gen, reserved, r) ==
    LET b == Current(a, gen, r.key)
    IN  IF r.op = "rename" THEN Renamed(a, gen, r)
        ELSE IF r.op = "bind" /\ r.oid \in reserved THEN {Outcome(a, "reserved")}
        ELSE IF Verdict(b, r) # "apply" THEN {Outcome(a, Verdict(b, r))}
        ELSE LET placed == Placed(a, r.key, Written(b, r), {})
             IN  IF placed = {} THEN {Outcome(a, "noroom")}
                 ELSE {Outcome(p, "ok") : p \in placed}
===============================================================================
