--------------------------- MODULE NamespaceProofs ---------------------------
(***************************************************************************)
(* Proofs about the namespace router, for any number of keys, any arena,   *)
(* any log and any operations: its state is well typed and its arena       *)
(* within its capacity, and a slot marked covered holds what the open      *)
(* snapshot generation holds, whatever is written while a compaction runs. *)
(***************************************************************************)
EXTENDS Namespace, TLAPS, FiniteSetTheorems, SequenceTheorems, NaturalsInduction

\* An arena: a slot per key, no more of them occupied than it has, and none
\* occupied by the absence of a binding.
Good(a) ==
    /\ a \in [Key -> Slot]
    /\ \A k \in Key : a[k] # Free => a[k].b.kind # "none"
    /\ Cardinality(Occupied(a)) <= Cap

\* A generation: a binding per key, absent keys all alike.
Shaped(g) ==
    /\ g \in Generation
    /\ \A k \in Key : g[k].kind = "none" => g[k] = Absent

\* What the router may do to an arena between compactions: every slot that still
\* bears a mark is untouched.
Marked(s) == s.covered \/ s.emitted
Spares(a, p) == \A k \in Key : Marked(p[k]) => p[k] = a[k]

\* A logged record: a reservation is of an object.
Logged == {r \in Record : r.op \in {"reserve", "release"} => r.oid \in Oid}

Typed ==
    /\ mode \in {"boot", "ready"}
    /\ Good(arena)
    /\ Shaped(gen) /\ Shaped(newer) /\ Shaped(out)
    /\ log \in Seq(Logged)
    /\ tail \in {"applied", "staged", "refused", "owed"}
    /\ tail # "applied" => log # <<>>
    /\ wal \in {"ok", "broken", "lost"}
    /\ reserved \subseteq Oid
    /\ pos \in 0..Len(log)
    /\ mode = "ready" => pos = 0
    /\ phase \in {"idle", "merge", "finish", "reopen", "rotate"}
    /\ cursor \in 0..Keys
    /\ decided \in Generation
    /\ strained \in BOOLEAN

\* While a generation is written: every slot the merge has passed that is covered
\* or emitted is emitted, and holds what the new generation holds; a slot written
\* since bears neither mark.  Marks a compaction aborted earlier left behind the
\* cursor's reach are passed again before the merge ends.
Merging ==
    /\ phase \in {"merge", "finish", "reopen"} =>
         \A k \in Key : Marked(arena[k]) /\ (phase = "merge" => k <= cursor)
                          => arena[k].emitted /\ out[k] = arena[k].b
    /\ phase = "reopen" => newer = out

IInv == Typed /\ Merging /\ CoveredExact

-------------------------------------------------------------------------------
(***************************************************************************)
(* The operators.                                                          *)
(***************************************************************************)

\* Nothing bound, nothing placed and an empty record have their types.
LEMMA Blanks ==
    /\ Absent \in Binding /\ Free \in Slot /\ Blank \in Logged
    /\ \A n \in Nat : Tombstone(n) \in Binding /\ Tombstone(n).kind = "tombstone"
<1>1. Absent \in Binding
  BY UntilAssumption DEF Absent, Binding
<1>2. Free \in Slot
  BY <1>1 DEF Free, Slot
<1>3. Blank \in Logged
  BY KeysAssumption, UntilAssumption DEF Blank, Record, Logged, Key
<1>4. \A n \in Nat : Tombstone(n) \in Binding /\ Tombstone(n).kind = "tombstone"
  BY UntilAssumption DEF Tombstone, Binding
<1>5. QED
  BY <1>1, <1>2, <1>3, <1>4

\* A record that names one key leaves a binding, and not the absence of one.
LEMMA WrittenTyped ==
    ASSUME NEW b \in Binding, NEW r \in Record,
           r.op \in {"bind", "unbind", "retain", "commit", "delete", "restore"}
    PROVE  /\ Written(b, r) \in Binding
           /\ (r.op = "retain" => b.kind # "none") => Written(b, r).kind # "none"
<1>1. /\ r.rev \in Nat /\ r.expect \in Nat /\ r.expect + 1 \in Nat /\ r.until \in Until
      /\ r.oid \in Oid \cup {NoOid} /\ r.kind \in {"object", "volume", "tombstone"}
      /\ (r.hold = "set") \in BOOLEAN /\ 0 \in Until
  BY UntilAssumption DEF Record
<1>2. CASE r.op = "bind"
  BY <1>1, <1>2 DEF Written, Binding
<1>3. CASE r.op = "unbind"
  BY <1>1, <1>3, Blanks DEF Written
<1>4. CASE r.op = "retain"
  <2>1. NewUntil(b, r) \in Until /\ NewHold(b, r) \in BOOLEAN
    BY <1>1 DEF NewUntil, NewHold, Binding
  <2>2. Written(b, r) = [b EXCEPT !.rev = r.rev, !.until = NewUntil(b, r), !.hold = NewHold(b, r)]
    BY <1>4 DEF Written
  <2>3. QED
    BY <1>1, <1>4, <2>1, <2>2 DEF Binding
<1>5. CASE r.op = "commit"
  BY <1>1, <1>5 DEF Written, Binding
<1>6. CASE r.op = "delete"
  BY <1>1, <1>6, Blanks DEF Written
<1>7. CASE r.op = "restore"
  <2>1. CASE r.kind = "tombstone"
    BY <1>1, <1>7, <2>1, Blanks DEF Written
  <2>2. CASE r.kind # "tombstone"
    BY <1>1, <1>7, <2>2 DEF Written, Binding
  <2>3. QED
    BY <2>1, <2>2
<1>8. QED
  BY <1>2, <1>3, <1>4, <1>5, <1>6, <1>7

\* The binding a key reads as.
LEMMA CurrentTyped ==
    ASSUME NEW a, Good(a), NEW g, Shaped(g), NEW k \in Key
    PROVE  /\ Current(a, g, k) \in Binding
           /\ Current(a, g, k).kind = "none" => Current(a, g, k) = Absent
           /\ Current(a, g, k) = Absent => a[k] = Free
<1>1. a[k].b \in Binding /\ g[k] \in Binding
  BY DEF Good, Shaped, Generation, Slot
<1>2. Absent.kind = "none"
  BY DEF Absent
<1>3. QED
  BY <1>1, <1>2 DEF Current, Good, Shaped

\* Where a record applies it leaves a binding.
LEMMA AppliesTo ==
    ASSUME NEW b \in Binding, b.kind = "none" => b = Absent, NEW r \in Record,
           r.op \in {"bind", "unbind", "retain", "commit", "delete", "restore"},
           Verdict(b, r) = "apply"
    PROVE  Written(b, r) \in Binding /\ Written(b, r).kind # "none"
<1>1. r.op = "retain" => b.kind # "none"
  BY DEF Verdict, RetainVerdict
<1>2. QED
  BY <1>1, WrittenTyped

\* The occupied slots are finitely many.
LEMMA OccupiedFinite ==
    ASSUME NEW a
    PROVE  IsFiniteSet(Occupied(a)) /\ Cardinality(Occupied(a)) \in Nat
<1>1. IsFiniteSet(Key)
  BY KeysAssumption, FS_Interval DEF Key
<1>2. Occupied(a) \subseteq Key
  BY DEF Occupied
<1>3. QED
  BY <1>1, <1>2, FS_Subset, FS_CardinalityType

\* A binding put in a slot, in an arena that has it or has room for it.
LEMMA PutGood ==
    ASSUME NEW a \in [Key -> Slot], \A k \in Key : a[k] # Free => a[k].b.kind # "none",
           NEW k \in Key, NEW b \in Binding, b.kind # "none",
           \/ k \in Occupied(a) /\ Cardinality(Occupied(a)) <= Cap
           \/ Cardinality(Occupied(a)) < Cap
    PROVE  /\ Good([a EXCEPT ![k] = WrittenSlot(a[k], b)])
           /\ Spares(a, [a EXCEPT ![k] = WrittenSlot(a[k], b)])
           /\ Occupied([a EXCEPT ![k] = WrittenSlot(a[k], b)]) = Occupied(a) \cup {k}
<1> DEFINE s == WrittenSlot(a[k], b)
           p == [a EXCEPT ![k] = s]
<1>1. s \in Slot /\ s.b = b /\ ~Marked(s)
  BY DEF WrittenSlot, Slot, Marked
<1>2. s # Free
  BY <1>1 DEF Free, Absent
<1> HIDE DEF s
<1>3. p \in [Key -> Slot] /\ p[k] = s /\ \A j \in Key : j # k => p[j] = a[j]
  BY <1>1
<1> HIDE DEF p
<1>4. Occupied(p) = Occupied(a) \cup {k}
  BY <1>2, <1>3 DEF Occupied
<1>5. Cardinality(Occupied(p)) <= Cap
  <2>1. /\ Cardinality(Occupied(a)) \in Nat
        /\ Cardinality(Occupied(a) \cup {k}) =
             IF k \in Occupied(a) THEN Cardinality(Occupied(a)) ELSE Cardinality(Occupied(a)) + 1
    BY OccupiedFinite, FS_AddElement
  <2>2. QED
    BY <1>4, <2>1, CapAssumption
<1>6. \A j \in Key : p[j] # Free => p[j].b.kind # "none"
  BY <1>1, <1>3
<1>7. Spares(a, p)
  BY <1>1, <1>3 DEF Spares
<1>8. QED
  BY <1>3, <1>4, <1>5, <1>6, <1>7 DEF Good, p, s

\* A slot evicted.
LEMMA EvictGood ==
    ASSUME NEW a, Good(a), NEW j \in Occupied(a)
    PROVE  /\ Good([a EXCEPT ![j] = Free]) /\ Spares(a, [a EXCEPT ![j] = Free])
           /\ Occupied([a EXCEPT ![j] = Free]) = Occupied(a) \ {j}
           /\ Cardinality(Occupied([a EXCEPT ![j] = Free])) < Cap
<1> DEFINE p == [a EXCEPT ![j] = Free]
<1>1. j \in Key /\ a \in [Key -> Slot]
  BY DEF Occupied, Good
<1>2. p \in [Key -> Slot] /\ p[j] = Free /\ \A k \in Key : k # j => p[k] = a[k]
  BY <1>1, Blanks
<1> HIDE DEF p
<1>3. Occupied(p) = Occupied(a) \ {j}
  BY <1>1, <1>2 DEF Occupied
<1>4. Cardinality(Occupied(p)) < Cap
  <2>1. /\ Cardinality(Occupied(a)) \in Nat
        /\ Cardinality(Occupied(a) \ {j}) =
             IF j \in Occupied(a) THEN Cardinality(Occupied(a)) - 1 ELSE Cardinality(Occupied(a))
    BY OccupiedFinite, FS_RemoveElement
  <2>2. QED
    BY <1>3, <2>1, CapAssumption DEF Good
<1>5. ~Marked(Free)
  BY DEF Marked, Free
<1>6. Spares(a, p)
  BY <1>2, <1>5 DEF Spares
<1>7. \A k \in Key : p[k] # Free => p[k].b.kind # "none"
  BY <1>2 DEF Good
<1>8. Cardinality(Occupied(p)) <= Cap
  BY <1>4, OccupiedFinite, CapAssumption
<1>9. QED
  BY <1>2, <1>3, <1>4, <1>6, <1>7, <1>8 DEF Good, p

\* A record's binding placed, behind an eviction if need be, keeps the arena
\* within its capacity, the marks of the others, and the slots it was to spare.
LEMMA PlacedGood ==
    ASSUME NEW a, Good(a), NEW k \in Key, NEW b \in Binding, b.kind # "none",
           NEW spared, NEW p \in Placed(a, k, b, spared)
    PROVE  /\ Good(p) /\ Spares(a, p)
           /\ \A j \in spared : j \in Occupied(a) => j \in Occupied(p)
<1>1. CASE k \in Occupied(a) \/ Cardinality(Occupied(a)) < Cap
  <2>1. p = [a EXCEPT ![k] = WrittenSlot(a[k], b)]
    BY <1>1 DEF Placed
  <2>2. /\ a \in [Key -> Slot] /\ \A j \in Key : a[j] # Free => a[j].b.kind # "none"
        /\ Cardinality(Occupied(a)) <= Cap
    BY DEF Good
  <2>3. Good(p) /\ Spares(a, p) /\ Occupied(p) = Occupied(a) \cup {k}
    BY <1>1, <2>1, <2>2, PutGood
  <2>4. QED
    BY <2>3
<1>2. CASE ~(k \in Occupied(a) \/ Cardinality(Occupied(a)) < Cap)
  <2>1. PICK j \in Evictable(a) \ spared :
           p = [[a EXCEPT ![j] = Free] EXCEPT ![k] = WrittenSlot([a EXCEPT ![j] = Free][k], b)]
    BY <1>2 DEF Placed
  <2> DEFINE c == [a EXCEPT ![j] = Free]
  <2>2. j \in Occupied(a)
    BY <2>1 DEF Evictable
  <2>3. /\ Good(c) /\ Spares(a, c) /\ Occupied(c) = Occupied(a) \ {j}
        /\ Cardinality(Occupied(c)) < Cap
    BY <2>2, EvictGood
  <2>4. p = [c EXCEPT ![k] = WrittenSlot(c[k], b)]
    BY <2>1
  <2> HIDE DEF c
  <2>5. Good(p) /\ Spares(c, p) /\ Occupied(p) = Occupied(c) \cup {k}
    <3>1. c \in [Key -> Slot] /\ \A i \in Key : c[i] # Free => c[i].b.kind # "none"
      BY <2>3 DEF Good
    <3>2. QED
      BY <2>3, <2>4, <3>1, PutGood
  <2>6. Spares(a, p)
    BY <2>3, <2>5 DEF Spares
  <2>7. QED
    BY <2>1, <2>3, <2>5, <2>6
<1>3. QED
  BY <1>1, <1>2

\* A rename moves a binding and leaves a tombstone, or leaves the arena as it is
\* but for an eviction.
LEMMA RenamedGood ==
    ASSUME NEW a, Good(a), NEW g, Shaped(g), NEW r \in Record, NEW o \in Renamed(a, g, r)
    PROVE  Good(o.arena) /\ Spares(a, o.arena)
<1> DEFINE from == Current(a, g, r.key)
           to == Current(a, g, r.to)
<1>1. r.key \in Key /\ r.to \in Key /\ r.rev \in Nat
  BY DEF Record
<1>2. ASSUME NEW e, o = Outcome(e, "rejected"), e \in RetryArena(a, r.key)
      PROVE  Good(o.arena) /\ Spares(a, o.arena)
  <2>1. o.arena = e
    BY <1>2 DEF Outcome
  <2>2. CASE e = a
    BY <2>1, <2>2 DEF Spares
  <2>3. CASE e # a
    <3>1. PICK j \in Evictable(a) : e = [a EXCEPT ![j] = Free]
      BY <1>2, <2>3 DEF RetryArena
    <3>2. j \in Occupied(a)
      BY <3>1 DEF Evictable
    <3>3. Good([a EXCEPT ![j] = Free]) /\ Spares(a, [a EXCEPT ![j] = Free])
      BY <3>2, EvictGood
    <3>4. QED
      BY <2>1, <3>1, <3>3
  <2>4. QED
    BY <2>2, <2>3
<1>3. ASSUME NEW status, o = Outcome(a, status)
      PROVE  Good(o.arena) /\ Spares(a, o.arena)
  BY <1>3 DEF Outcome, Spares
<1> DEFINE moved == [from EXCEPT !.rev = RenameTo(a, r)]
<1>4. ASSUME Live(a[r.key].b), NEW p \in Placed(a, r.to, moved, {r.key}),
             o = Outcome([p EXCEPT ![r.key] = WrittenSlot(p[r.key], Tombstone(r.rev))], "ok")
      PROVE  Good(o.arena) /\ Spares(a, o.arena)
  <2>1. a[r.key] # Free /\ from = a[r.key].b
    BY <1>4 DEF Live, Free, Absent, Current
  <2>2. from \in Binding /\ from.kind \in {"object", "volume"}
    BY <1>1, <1>4, <2>1, CurrentTyped DEF Live
  <2>3. RenameTo(a, r) \in Nat
    BY <1>1 DEF RenameTo, Good, Slot, Binding
  <2>4. moved \in Binding /\ moved.kind # "none"
    BY <2>2, <2>3 DEF Binding
  <2> HIDE DEF moved
  <2>5. Good(p) /\ Spares(a, p) /\ r.key \in Occupied(p)
    <3>1. r.key \in Occupied(a)
      BY <1>1, <2>1 DEF Occupied
    <3>2. QED
      BY <1>1, <1>4, <2>4, <3>1, PlacedGood
  <2> DEFINE q == [p EXCEPT ![r.key] = WrittenSlot(p[r.key], Tombstone(r.rev))]
  <2>6. Tombstone(r.rev) \in Binding /\ Tombstone(r.rev).kind # "none"
    BY <1>1, Blanks
  <2>7. Good(q) /\ Spares(p, q)
    <3>1. /\ p \in [Key -> Slot] /\ \A i \in Key : p[i] # Free => p[i].b.kind # "none"
          /\ Cardinality(Occupied(p)) <= Cap
      BY <2>5 DEF Good
    <3>2. QED
      BY <1>1, <2>5, <2>6, <3>1, PutGood
  <2>8. o.arena = q
    BY <1>4 DEF Outcome
  <2>9. QED
    BY <2>5, <2>7, <2>8 DEF Spares
<1>5. \/ \E status \in {"fenced", "retained", "rejected", "noroom"} : o = Outcome(a, status)
      \/ \E e \in RetryArena(a, r.key) : o = Outcome(e, "rejected")
      \/ /\ Live(a[r.key].b)
         /\ \E p \in Placed(a, r.to, moved, {r.key}) :
               o = Outcome([p EXCEPT ![r.key] = WrittenSlot(p[r.key], Tombstone(r.rev))], "ok")
  BY DEF Renamed
<1> HIDE DEF moved
<1>6. QED
  BY <1>2, <1>3, <1>4, <1>5

\* A record applied keeps the arena within its capacity, a binding in each
\* occupied slot, and the marks of the slots it does not write.
LEMMA AppliedGood ==
    ASSUME NEW a, Good(a), NEW g, Shaped(g), NEW held, NEW r \in Record,
           r.op \notin {"reserve", "release"}, NEW o \in Applied(a, g, held, r)
    PROVE  Good(o.arena) /\ Spares(a, o.arena)
<1> DEFINE b == Current(a, g, r.key)
<1>1. CASE r.op = "rename"
  BY <1>1, RenamedGood DEF Applied
<1>2. CASE r.op # "rename"
  <2>1. r.op \in {"bind", "unbind", "retain", "commit", "delete", "restore"} /\ r.key \in Key
    BY <1>2 DEF Record
  <2>2. ASSUME NEW status, o = Outcome(a, status) PROVE Good(o.arena) /\ Spares(a, o.arena)
    BY <2>2 DEF Outcome, Spares
  <2>3. ASSUME Verdict(b, r) = "apply", NEW p \in Placed(a, r.key, Written(b, r), {}),
               o = Outcome(p, "ok")
        PROVE  Good(o.arena) /\ Spares(a, o.arena)
    <3>1. b \in Binding /\ (b.kind = "none" => b = Absent)
      BY <2>1, CurrentTyped
    <3> HIDE DEF b
    <3>2. Written(b, r) \in Binding /\ Written(b, r).kind # "none"
      BY <2>1, <2>3, <3>1, AppliesTo
    <3>3. Good(p) /\ Spares(a, p)
      BY <2>1, <2>3, <3>2, PlacedGood
    <3>4. QED
      BY <2>3, <3>3 DEF Outcome
  <2>4. \/ \E status : o = Outcome(a, status)
        \/ /\ Verdict(b, r) = "apply"
           /\ \E p \in Placed(a, r.key, Written(b, r), {}) : o = Outcome(p, "ok")
    BY <1>2 DEF Applied
  <2> HIDE DEF b
  <2>5. QED
    BY <2>2, <2>3, <2>4
<1>3. QED
  BY <1>1, <1>2

\* What an acknowledged record leaves of the keys.
LEMMA AcknowledgedTyped ==
    ASSUME decided \in Generation, NEW r \in Record, r.op \notin {"reserve", "release"},
           NEW p, Good(p)
    PROVE  Acknowledged(r, p) \in Generation
<1>1. r.key \in Key /\ r.to \in Key /\ p[r.key].b \in Binding /\ p[r.to].b \in Binding
  BY DEF Record, Good, Slot
<1>2. CASE r.op = "rename"
  BY <1>1, <1>2 DEF Acknowledged, Generation
<1>3. CASE r.op # "rename"
  <2>1. r.op \in {"bind", "unbind", "retain", "commit", "delete", "restore"}
    BY <1>3 DEF Record
  <2>2. Written(decided[r.key], r) \in Binding
    BY <1>1, <2>1, WrittenTyped DEF Generation
  <2>3. QED
    BY <1>1, <1>3, <2>2 DEF Acknowledged, Generation
<1>4. QED
  BY <1>2, <1>3

\* The records the router is sent are records.
LEMMA RequestsLogged ==
    ASSUME decided \in Generation
    PROVE  Requests \subseteq Logged
<1>1. ASSUME NEW k \in Key, NEW e \in ReadRev(k) PROVE e \in Nat /\ e + 1 \in Nat
  BY <1>1 DEF ReadRev, Generation, Binding
<1>2. (1..MaxRev) \subseteq Nat /\ (0..MaxNow) \subseteq Nat
  BY BoundsAssumption
<1>3. Blank \in Record /\ Blank.op = "bind"
  BY Blanks DEF Logged, Blank
<1> USE DEF Record, Logged
<1>4. \A k \in Key, e \in Nat, o \in Oid, u \in Until, h \in {"set", "clear"}, now \in Nat :
        Put(k, e, o, u, h, now) \in Logged
  <2> TAKE k \in Key, e \in Nat, o \in Oid, u \in Until, h \in {"set", "clear"}, now \in Nat
  <2>1. PICK n \in Nat : n = e + 1
    OBVIOUS
  <2>2. QED
    BY <1>3, <2>1 DEF Put
<1>5. \A k \in Key, e \in Nat, now \in Nat : Unbind(k, e, now) \in Logged
  <2> TAKE k \in Key, e \in Nat, now \in Nat
  <2>1. PICK n \in Nat : n = e + 1
    OBVIOUS
  <2>2. QED
    BY <1>3, <2>1 DEF Unbind
<1>6. \A k \in Key, e \in Nat, u \in Until, h \in {"set", "clear", "keep"} :
        Retain(k, e, u, h) \in Logged
  <2> TAKE k \in Key, e \in Nat, u \in Until, h \in {"set", "clear", "keep"}
  <2>1. PICK n \in Nat : n = e + 1
    OBVIOUS
  <2>2. QED
    BY <1>3, <2>1 DEF Retain
<1>7. \A k \in Key, n \in Nat, o \in Oid : Bind(k, n, o) \in Logged /\ Commit(k, n, o) \in Logged
  BY <1>3 DEF Bind, Commit
<1>8. \A k \in Key, j \in Key, n \in Nat : Rename(k, j, n) \in Logged /\ Delete(k, n) \in Logged
  BY <1>3 DEF Rename, Delete
<1>9. \A op \in {"reserve", "release"}, o \in Oid : Reservation(op, o) \in Logged
  BY <1>3 DEF Reservation
<1> HIDE DEF Record, Logged
<1>10. ASSUME NEW k \in Key PROVE RequestsOf(k) \subseteq Logged
  BY <1>1, <1>2, <1>4, <1>5, <1>6, <1>7, <1>8 DEF RequestsOf, Sent
<1> DEFINE Keyed == UNION {RequestsOf(k) : k \in Key}
           Unkeyed == Sent("reserve", {Reservation(op, o) : op \in {"reserve", "release"}, o \in Oid})
<1>11. Keyed \subseteq Logged
  BY <1>10
<1>12. Unkeyed \subseteq Logged
  BY <1>9 DEF Sent
<1>13. Requests = Keyed \cup Unkeyed
  BY DEF Requests
<1> HIDE DEF Keyed, Unkeyed
<1>14. QED
  BY <1>11, <1>12, <1>13

\* A record that reinstates an occupied slot.
LEMMA SeedLogged ==
    ASSUME Good(arena), NEW k \in Dirty(arena)
    PROVE  k \in Key /\ Seed(k) \in Logged
<1>1. k \in Key /\ arena[k] # Free
  BY DEF Dirty, Occupied
<1>2. arena[k].b \in Binding /\ arena[k].b.kind # "none"
  BY <1>1 DEF Good, Slot
<1>3. Blank \in Record
  BY Blanks DEF Logged
<1>4. QED
  BY <1>1, <1>2, <1>3 DEF Seed, Binding, Record, Logged

\* The n-th part of the seeds, given outright: as many as there are dirty keys up
\* to n, the i-th the one of the i-th dirty key.
DirtyTo(n) == {k \in Dirty(arena) : k <= n}
Nth(i) == CHOOSE k \in Dirty(arena) : Cardinality(DirtyTo(k)) = i
SeedsTo(n) == [i \in 1..Cardinality(DirtyTo(n)) |-> Seed(Nth(i))]

\* Counting the dirty keys.
LEMMA DirtyCount ==
    ASSUME NEW n \in 0..Keys
    PROVE  /\ IsFiniteSet(DirtyTo(n)) /\ Cardinality(DirtyTo(n)) \in Nat
           /\ n = 0 => Cardinality(DirtyTo(n)) = 0
           /\ n # 0 => Cardinality(DirtyTo(n)) = IF n \in Dirty(arena)
                                                THEN Cardinality(DirtyTo(n - 1)) + 1
                                                ELSE Cardinality(DirtyTo(n - 1))
<1>1. \A m \in 0..Keys : IsFiniteSet(DirtyTo(m)) /\ Cardinality(DirtyTo(m)) \in Nat
  <2> TAKE m \in 0..Keys
  <2>1. IsFiniteSet(Key)
    BY KeysAssumption, FS_Interval DEF Key
  <2>2. DirtyTo(m) \subseteq Key
    BY DEF DirtyTo, Dirty, Occupied
  <2>3. QED
    BY <2>1, <2>2, FS_Subset, FS_CardinalityType
<1>2. ASSUME n = 0 PROVE Cardinality(DirtyTo(n)) = 0
  <2>1. DirtyTo(n) = {}
    BY <1>2, KeysAssumption DEF DirtyTo, Dirty, Occupied, Key
  <2>2. QED
    BY <2>1, FS_EmptySet
<1>3. ASSUME n # 0
      PROVE  Cardinality(DirtyTo(n)) = IF n \in Dirty(arena) THEN Cardinality(DirtyTo(n - 1)) + 1
                                       ELSE Cardinality(DirtyTo(n - 1))
  <2>1. n - 1 \in 0..Keys
    BY <1>3, KeysAssumption
  <2>2. IsFiniteSet(DirtyTo(n - 1)) /\ n \notin DirtyTo(n - 1)
    BY <1>1, <2>1 DEF DirtyTo
  <2>3. DirtyTo(n) = IF n \in Dirty(arena) THEN DirtyTo(n - 1) \cup {n} ELSE DirtyTo(n - 1)
    BY <2>1, KeysAssumption DEF DirtyTo, Dirty, Occupied, Key
  <2>4. QED
    BY <2>2, <2>3, FS_AddElement
<1>4. QED
  BY <1>1, <1>2, <1>3

\* The dirty keys are counted in their order: a dirty key's number is its own.
LEMMA DirtyNth ==
    ASSUME NEW n \in Dirty(arena)
    PROVE  n \in Key /\ Nth(Cardinality(DirtyTo(n))) = n
<1>1. n \in Key
  BY DEF Dirty, Occupied
<1>2. ASSUME NEW k \in Dirty(arena), NEW j \in Dirty(arena), k < j
      PROVE  Cardinality(DirtyTo(k)) < Cardinality(DirtyTo(j))
  <2>1. k \in 0..Keys /\ j \in 0..Keys
    BY KeysAssumption DEF Dirty, Occupied, Key
  <2>2. /\ IsFiniteSet(DirtyTo(j)) /\ Cardinality(DirtyTo(j)) \in Nat
        /\ Cardinality(DirtyTo(k)) \in Nat
    BY <2>1, DirtyCount
  <2>3. DirtyTo(k) \subseteq DirtyTo(j) /\ j \in DirtyTo(j) /\ j \notin DirtyTo(k)
    BY <1>2, <2>1 DEF DirtyTo, Dirty, Occupied, Key
  <2>4. Cardinality(DirtyTo(k)) <= Cardinality(DirtyTo(j))
        /\ (Cardinality(DirtyTo(k)) = Cardinality(DirtyTo(j)) => DirtyTo(k) = DirtyTo(j))
    BY <2>2, <2>3, FS_Subset
  <2>5. QED
    BY <2>2, <2>3, <2>4
<1>3. ASSUME NEW k \in Dirty(arena), Cardinality(DirtyTo(k)) = Cardinality(DirtyTo(n)) PROVE k = n
  <2>1. k \in 0..Keys /\ n \in 0..Keys /\ Cardinality(DirtyTo(n)) \in Nat
    BY <1>1, KeysAssumption, DirtyCount DEF Dirty, Occupied, Key
  <2>2. ~(k < n) /\ ~(n < k)
    BY <1>2, <1>3, <2>1
  <2>3. QED
    BY <2>1, <2>2
<1>4. QED
  BY <1>1, <1>3 DEF Nth

\* A key more: the seeds grow by its record if it is dirty.
LEMMA SeedsStep ==
    ASSUME Good(arena), NEW n \in 1..Keys
    PROVE  SeedsTo(n) = IF n \in Dirty(arena) THEN Append(SeedsTo(n - 1), Seed(n))
                        ELSE SeedsTo(n - 1)
<1>1. n \in 0..Keys /\ n - 1 \in 0..Keys /\ n # 0
  BY KeysAssumption
<1> DEFINE c == Cardinality(DirtyTo(n - 1))
<1>2. /\ c \in Nat
      /\ Cardinality(DirtyTo(n)) = IF n \in Dirty(arena) THEN c + 1 ELSE c
  BY <1>1, DirtyCount
<1>3. CASE n \in Dirty(arena)
  <2>1. Nth(c + 1) = n /\ Cardinality(DirtyTo(n)) = c + 1
    BY <1>2, <1>3, DirtyNth
  <2> DEFINE s == SeedsTo(n - 1)
             t == SeedsTo(n)
  <2>2. /\ s = [i \in 1..c |-> Seed(Nth(i))]
        /\ t = [i \in 1..(c + 1) |-> Seed(Nth(i))]
    BY <2>1 DEF SeedsTo
  <2> HIDE DEF c, s, t
  <2> DEFINE X == {Seed(Nth(i)) : i \in 1..(c + 1)}
  <2>3. s \in Seq(X) /\ Len(s) = c /\ t \in Seq(X) /\ Len(t) = c + 1 /\ Seed(n) \in X
    <3>1. \A i \in 1..(c + 1) : Seed(Nth(i)) \in X
      OBVIOUS
    <3>2. c + 1 \in 1..(c + 1) /\ c + 1 \in Nat /\ (1..c) \subseteq 1..(c + 1)
      BY <1>2
    <3> HIDE DEF X
    <3>3. QED
      BY <1>2, <2>1, <2>2, <3>1, <3>2
  <2> HIDE DEF X
  <2>4. /\ Append(s, Seed(n)) \in Seq(X) /\ Len(Append(s, Seed(n))) = c + 1
        /\ \A i \in 1..c : Append(s, Seed(n))[i] = s[i]
        /\ Append(s, Seed(n))[c + 1] = Seed(n)
    BY <2>3, AppendProperties
  <2>5. \A i \in 1..(c + 1) : t[i] = Append(s, Seed(n))[i]
    <3> TAKE i \in 1..(c + 1)
    <3>1. CASE i \in 1..c
      BY <2>2, <2>4, <3>1
    <3>2. CASE i = c + 1
      <4>1. t[c + 1] = Seed(Nth(c + 1))
        BY <1>2, <2>2
      <4>2. QED
        BY <2>1, <2>4, <3>2, <4>1
    <3>3. i \in 1..c \/ i = c + 1
      BY <1>2
    <3>4. QED
      BY <3>1, <3>2, <3>3
  <2>6. t = Append(s, Seed(n))
    BY <2>3, <2>4, <2>5, SeqEqual
  <2>7. QED
    BY <1>3, <2>6 DEF s, t
<1>4. CASE n \notin Dirty(arena)
  BY <1>2, <1>4 DEF SeedsTo
<1>5. QED
  BY <1>3, <1>4

\* The rotated log opens with records: a record per dirty key.  Seeds is defined
\* by recursion on the keys; SeedsTo solves its equation, and a least key at which
\* another solution differed would contradict SeedsStep.
LEMMA SeedsAre ==
    ASSUME Good(arena)
    PROVE  Seeds = SeedsTo(Keys)
<1> DEFINE Step(g) == [n \in 0..Keys |->
                         IF n = 0 THEN <<>>
                         ELSE IF n \in Dirty(arena) THEN Append(g[n - 1], Seed(n))
                         ELSE g[n - 1]]
           f == [n \in 0..Keys |-> SeedsTo(n)]
           g == CHOOSE x : x = Step(x)
<1>1. Seeds = g[Keys]
  BY DEF Seeds
<1>2. Keys \in Nat /\ 0 \in 0..Keys /\ Keys \in 0..Keys
  BY KeysAssumption
<1>3. SeedsTo(0) = <<>>
  <2>1. Cardinality(DirtyTo(0)) = 0
    BY <1>2, DirtyCount
  <2>2. QED
    BY <2>1 DEF SeedsTo
<1>4. \A n \in 1..Keys : SeedsTo(n) = IF n \in Dirty(arena) THEN Append(SeedsTo(n - 1), Seed(n))
                                      ELSE SeedsTo(n - 1)
  BY SeedsStep
<1>5. f = Step(f)
  <2>1. \A n \in 0..Keys : n # 0 => n \in 1..Keys /\ n - 1 \in 0..Keys
    BY <1>2
  <2>2. \A n \in 0..Keys : f[n] = Step(f)[n]
    BY <1>3, <1>4, <2>1
  <2>3. QED
    BY <2>2
<1>6. g = Step(g)
  <2> HIDE DEF Step
  <2>1. QED
    BY <1>5
<1> HIDE DEF g
<1>7. \A n \in 0..Keys : g[n] = SeedsTo(n)
  <2> DEFINE Bad == {n \in 0..Keys : g[n] # SeedsTo(n)}
  <2> SUFFICES ASSUME Bad # {} PROVE FALSE
    OBVIOUS
  <2>1. Bad \subseteq Nat
    BY <1>2
  <2>2. PICK x \in Bad : \A y \in Bad : ~(<<y, x>> \in OpToRel(<, Nat))
    BY <2>1, NatLessThanWellFounded, WFMin
  <2>3. x \in 0..Keys /\ g[x] # SeedsTo(x) /\ x \in Nat
    BY <2>1, <2>2
  <2>4. x # 0
    BY <1>3, <1>6, <2>3
  <2>5. x - 1 \in 0..Keys /\ x \in 1..Keys /\ x - 1 < x /\ x - 1 \in Nat
    BY <1>2, <2>3, <2>4
  <2>6. x - 1 \notin Bad
    BY <2>2, <2>3, <2>5 DEF OpToRel
  <2>7. g[x - 1] = SeedsTo(x - 1)
    BY <2>5, <2>6
  <2>8. g[x] = IF x \in Dirty(arena) THEN Append(g[x - 1], Seed(x)) ELSE g[x - 1]
    BY <1>6, <2>3, <2>4
  <2>9. QED
    BY <1>4, <2>3, <2>5, <2>7, <2>8
<1>8. QED
  BY <1>1, <1>2, <1>7

\* The seeds are records a replay may be handed.
LEMMA SeedsLogged ==
    ASSUME Good(arena)
    PROVE  Seeds \in Seq(Logged)
<1> DEFINE Bad == {n \in 0..Keys : SeedsTo(n) \notin Seq(Logged)}
<1>1. Keys \in Nat /\ 0 \in 0..Keys /\ Keys \in 0..Keys
  BY KeysAssumption
<1>2. SeedsTo(0) \in Seq(Logged)
  <2>1. Cardinality(DirtyTo(0)) = 0
    BY <1>1, DirtyCount
  <2>2. QED
    BY <2>1 DEF SeedsTo
<1>3. Bad = {}
  <2> SUFFICES ASSUME Bad # {} PROVE FALSE
    OBVIOUS
  <2>1. Bad \subseteq Nat
    BY <1>1
  <2>2. PICK x \in Bad : \A y \in Bad : ~(<<y, x>> \in OpToRel(<, Nat))
    BY <2>1, NatLessThanWellFounded, WFMin
  <2>3. x \in 0..Keys /\ SeedsTo(x) \notin Seq(Logged) /\ x \in Nat
    BY <2>1, <2>2
  <2>4. x # 0
    BY <1>2, <2>3
  <2>5. x - 1 \in 0..Keys /\ x \in 1..Keys /\ x - 1 < x /\ x - 1 \in Nat
    BY <1>1, <2>3, <2>4
  <2>6. SeedsTo(x - 1) \in Seq(Logged)
    BY <2>2, <2>3, <2>5 DEF OpToRel
  <2>7. x \in Dirty(arena) => Seed(x) \in Logged
    BY SeedLogged
  <2>8. SeedsTo(x) = IF x \in Dirty(arena) THEN Append(SeedsTo(x - 1), Seed(x))
                     ELSE SeedsTo(x - 1)
    BY <2>5, SeedsStep
  <2>9. x \in Dirty(arena) => Append(SeedsTo(x - 1), Seed(x)) \in Seq(Logged)
    BY <2>6, <2>7, AppendProperties
  <2>10. QED
    BY <2>3, <2>6, <2>8, <2>9
<1>4. QED
  BY <1>1, <1>3, SeedsAre

-------------------------------------------------------------------------------
(***************************************************************************)
(* The invariant.                                                          *)
(***************************************************************************)

\* Steps that leave the arena, the generations and the compaction alone.
LEMMA QuietKeeps ==
    ASSUME Merging, CoveredExact, UNCHANGED <<arena, gen, newer, phase, cursor, out>>
    PROVE  Merging' /\ CoveredExact'
  BY DEF Merging, CoveredExact

\* Steps that write the arena between two of the merge's own.
LEMMA WriteKeeps ==
    ASSUME Merging, CoveredExact, Spares(arena, arena'),
           UNCHANGED <<gen, newer, phase, cursor, out>>
    PROVE  Merging' /\ CoveredExact'
<1>1. \A k \in Key : Marked(arena'[k]) => arena'[k] = arena[k]
  BY DEF Spares
<1>2. CoveredExact'
  BY <1>1 DEF CoveredExact, Marked
<1>3. Merging'
  BY <1>1 DEF Merging
<1>4. QED
  BY <1>2, <1>3

\* The record last logged.
LEMMA LastLogged ==
    ASSUME Typed, tail # "applied"
    PROVE  Len(log) \in Nat \ {0} /\ log[Len(log)] \in Logged
  BY DEF Typed

\* What a boot starts from, and what no generation on disk amounts to.
LEMMA EmptyGood ==
    /\ Shaped(EmptyGen) /\ Good(EmptyArena)
    /\ \A k \in Key : EmptyArena[k] = Free
<1>1. Shaped(EmptyGen)
  BY Blanks DEF Shaped, Generation, EmptyGen
<1>2. Good(EmptyArena) /\ \A k \in Key : EmptyArena[k] = Free
  <2>1. EmptyArena \in [Key -> Slot] /\ \A k \in Key : EmptyArena[k] = Free
    BY Blanks DEF EmptyArena
  <2>2. Occupied(EmptyArena) = {}
    BY <2>1 DEF Occupied
  <2>3. Cardinality(Occupied(EmptyArena)) <= Cap
    BY <2>2, FS_EmptySet, CapAssumption
  <2>4. QED
    BY <2>1, <2>3 DEF Good
<1>3. QED
  BY <1>1, <1>2

\* The boot state satisfies the invariant.
LEMMA InitIInv == Init => IInv
<1> SUFFICES ASSUME Init PROVE IInv
  OBVIOUS
<1> USE DEF Init
<1>1. Shaped(EmptyGen)
  BY EmptyGood
<1>2. Good(EmptyArena)
  BY EmptyGood
<1>3. log \in Seq(Logged) /\ pos \in 0..Len(log) /\ cursor \in 0..Keys
  BY KeysAssumption
<1>4. Typed
  BY <1>1, <1>2, <1>3 DEF Typed, Shaped
<1>5. Merging /\ CoveredExact
  BY DEF Merging, CoveredExact, EmptyArena, Free
<1>6. QED
  BY <1>4, <1>5 DEF IInv

\* A record taken, or refused with the log broken under it.
LEMMA LogStep ==
    ASSUME IInv, NEW r \in Requests, NEW survives \in BOOLEAN,
           LogRequest(r) \/ LogFails(r, survives)
    PROVE  IInv'
<1> USE DEF IInv
<1>1. r \in Logged
  BY RequestsLogged DEF Typed
<1>2. /\ UNCHANGED <<mode, arena, gen, newer, reserved, pos, decided, strained, phase, cursor, out>>
      /\ wal' \in {"ok", "broken", "lost"}
  BY DEF LogRequest, LogFails, compaction, Typed
<1>3. /\ log' \in Seq(Logged) /\ pos' \in 0..Len(log')
      /\ tail' \in {"applied", "staged", "refused", "owed"} /\ (tail' # "applied" => log' # <<>>)
  <2>1. /\ Append(log, r) \in Seq(Logged) /\ Len(Append(log, r)) = Len(log) + 1
        /\ Append(log, r) # <<>>
    BY <1>1, AppendProperties DEF Typed
  <2>2. \/ log' = Append(log, r) /\ tail' \in {"staged", "refused"}
        \/ log' = log /\ tail' = "applied"
    BY DEF LogRequest, LogFails
  <2>3. log \in Seq(Logged) /\ Len(log) \in Nat /\ pos \in 0..Len(log) /\ pos' = pos
    BY <1>2 DEF Typed
  <2>4. CASE log' = Append(log, r) /\ tail' \in {"staged", "refused"}
    BY <2>1, <2>3, <2>4
  <2>5. CASE log' = log /\ tail' = "applied"
    BY <2>3, <2>5
  <2>6. QED
    BY <2>2, <2>4, <2>5
<1>4. Typed'
  BY <1>2, <1>3 DEF Typed
<1>5. QED
  BY <1>2, <1>4, QuietKeeps

\* A record applied to the arena, live or replayed, whatever its verdict.
LEMMA ApplyStep ==
    ASSUME IInv, NEW r \in Logged, r.op \notin {"reserve", "release"},
           NEW o \in Applied(arena, gen, reserved, r), arena' = o.arena,
           decided' = decided \/ decided' = Acknowledged(r, o.arena),
           UNCHANGED <<gen, newer, phase, cursor, out>>
    PROVE  /\ Good(arena') /\ decided' \in Generation /\ Merging' /\ CoveredExact'
<1>1. r \in Record /\ Good(arena) /\ Shaped(gen) /\ decided \in Generation
  BY DEF Logged, IInv, Typed
<1>2. Good(o.arena) /\ Spares(arena, o.arena)
  BY <1>1, AppliedGood
<1>3. decided' \in Generation
  BY <1>1, <1>2, AcknowledgedTyped
<1>4. QED
  BY <1>2, <1>3, WriteKeeps DEF IInv

\* resolve_staged.
LEMMA StagedStep ==
    ASSUME IInv, ApplyStaged
    PROVE  IInv'
<1> DEFINE r == log[Len(log)]
<1>1. r \in Logged /\ r.op \notin {"reserve", "release"}
  BY LastLogged DEF IInv, ApplyStaged
<1> HIDE DEF r
<1>2. PICK o \in Applied(arena, gen, reserved, r) :
        /\ arena' = o.arena
        /\ decided' = IF o.status = "ok" THEN Acknowledged(r, o.arena) ELSE decided
        /\ strained' = (strained \/ o.status = "noroom")
  BY DEF ApplyStaged, r
<1>3. /\ UNCHANGED <<mode, gen, newer, log, wal, reserved, pos, phase, cursor, out>>
      /\ tail' = "applied"
  BY DEF ApplyStaged, compaction
<1>4. decided' = decided \/ decided' = Acknowledged(r, o.arena)
  BY <1>2
<1>5. Good(arena') /\ decided' \in Generation /\ Merging' /\ CoveredExact'
  BY <1>1, <1>2, <1>3, <1>4, ApplyStep
<1>6. strained' \in BOOLEAN
  BY <1>2
<1>7. Typed'
  BY <1>3, <1>5, <1>6 DEF IInv, Typed
<1>8. QED
  BY <1>5, <1>7 DEF IInv

\* A deletion reservation, or its release.
LEMMA ReservationStep ==
    ASSUME IInv, ApplyReservation
    PROVE  IInv'
<1>1. log[Len(log)] \in Logged /\ log[Len(log)].op \in {"reserve", "release"}
  BY LastLogged DEF IInv, ApplyReservation
<1>2. reserved' \subseteq Oid
  BY <1>1 DEF ApplyReservation, Logged, IInv, Typed
<1>3. /\ UNCHANGED <<mode, arena, gen, newer, log, wal, pos, decided, strained, phase, cursor, out>>
      /\ tail' = "applied"
  BY DEF ApplyReservation, compaction
<1>4. Typed'
  BY <1>2, <1>3 DEF IInv, Typed
<1>5. QED
  BY <1>3, <1>4, QuietKeeps DEF IInv

\* BIND on the provider surface.
LEMMA ProviderStep ==
    ASSUME IInv, NEW k \in Key, NEW o \in Oid, ProviderBind(k, o)
    PROVE  IInv'
<1> DEFINE new == [kind |-> "object", rev |-> arena[k].b.rev + 1, oid |-> o, until |-> 0,
                   hold |-> FALSE]
<1>1. arena[k].b.rev \in Nat /\ Good(arena) /\ decided \in Generation
  BY DEF IInv, Typed, Good, Slot, Binding
<1>2. new \in Binding /\ new.kind # "none"
  <2>1. PICK n \in Nat : n = arena[k].b.rev + 1
    BY <1>1
  <2>2. QED
    BY <2>1, UntilAssumption DEF Binding
<1>3. arena' \in Placed(arena, k, new, {}) /\ decided' = [decided EXCEPT ![k] = new]
  BY DEF ProviderBind
<1>4. UNCHANGED <<mode, gen, newer, log, tail, wal, reserved, pos, strained, phase, cursor, out>>
  BY DEF ProviderBind, compaction
<1> HIDE DEF new
<1>5. Good(arena') /\ Spares(arena, arena')
  BY <1>1, <1>2, <1>3, PlacedGood
<1>6. decided' \in Generation
  BY <1>1, <1>2, <1>3 DEF Generation
<1>7. Typed'
  BY <1>4, <1>5, <1>6 DEF IInv, Typed
<1>8. QED
  BY <1>4, <1>5, <1>7, WriteKeeps DEF IInv

\* The least key not merged yet.
LEMMA LeastUnmerged ==
    ASSUME Unmerged # {}
    PROVE  LET c == CHOOSE k \in Unmerged : \A j \in Unmerged : k <= j
           IN  c \in Unmerged /\ \A j \in Unmerged : c <= j
<1>1. Unmerged \subseteq Nat
  BY KeysAssumption DEF Unmerged, Key
<1>2. PICK x \in Unmerged : \A y \in Unmerged : ~(<<y, x>> \in OpToRel(<, Nat))
  BY <1>1, NatLessThanWellFounded, WFMin
<1>3. ASSUME NEW y \in Unmerged PROVE x <= y
  <2>1. ~(y < x)
    BY <1>1, <1>2 DEF OpToRel
  <2>2. QED
    BY <1>1, <2>1
<1>4. QED
  BY <1>2, <1>3

\* A compaction begun: the cursor has passed nothing, so marks left by one that
\* was aborted say nothing yet.
LEMMA StartStep ==
    ASSUME IInv, CompactionStart
    PROVE  IInv'
<1>1. /\ UNCHANGED <<mode, arena, gen, log, tail, wal, reserved, pos, decided, strained>>
      /\ phase' = "merge" /\ cursor' = 0 /\ out' = EmptyGen /\ newer' = EmptyGen
  BY DEF CompactionStart
<1>2. Shaped(EmptyGen)
  BY Blanks DEF Shaped, Generation, EmptyGen
<1>3. 0 \in 0..Keys /\ \A k \in Key : ~(k <= 0)
  BY KeysAssumption DEF Key
<1>4. Typed'
  BY <1>1, <1>2, <1>3 DEF IInv, Typed
<1>5. Merging' /\ CoveredExact'
  BY <1>1, <1>3 DEF IInv, Merging, CoveredExact
<1>6. QED
  BY <1>4, <1>5 DEF IInv

\* A key merged: its slot's mark says the new generation holds it.  The keys the
\* cursor skips read as absent, and an occupied slot never does.
LEMMA MergeStep ==
    ASSUME IInv, Merge
    PROVE  IInv'
<1> DEFINE c == cursor'
           s == [arena[c] EXCEPT !.emitted = arena[c] # Free]
<1>1. c \in Unmerged /\ \A j \in Unmerged : c <= j
  BY LeastUnmerged DEF Merge
<1>2. c \in Key /\ c \in Nat /\ cursor \in 0..Keys /\ cursor < c /\ c \in 0..Keys
  BY <1>1, KeysAssumption DEF Unmerged, Key, IInv, Typed
<1>3. /\ UNCHANGED <<mode, gen, newer, log, tail, wal, reserved, pos, phase, decided, strained>>
      /\ phase = "merge"
      /\ out' = [out EXCEPT ![c] = Current(arena, gen, c)]
      /\ arena' = [arena EXCEPT ![c] = s]
  BY DEF Merge
<1>4. /\ Good(arena) /\ Shaped(gen) /\ Shaped(out)
      /\ arena \in [Key -> Slot] /\ out \in [Key -> Binding]
  BY DEF IInv, Typed, Good, Shaped, Generation
<1>5. /\ s \in Slot /\ s.b = arena[c].b /\ s.covered = arena[c].covered
      /\ s.emitted = (arena[c] # Free)
  BY <1>2, <1>4 DEF Slot
<1> HIDE DEF s
<1>6. s = Free <=> arena[c] = Free
  <2>1. CASE arena[c] = Free
    <3>1. arena[c].emitted = FALSE
      BY <2>1 DEF Free
    <3>2. (arena[c] # Free) = FALSE
      BY <2>1
    <3>3. s.emitted = FALSE
      BY <1>5, <3>2
    <3>4. s = arena[c]
      BY <1>2, <1>4, <1>5, <3>1, <3>3 DEF Slot
    <3>5. QED
      BY <2>1, <3>4
  <2>2. CASE arena[c] # Free
    <3>1. s.emitted /\ ~Free.emitted
      BY <1>5, <2>2 DEF Free
    <3>2. QED
      BY <2>2, <3>1
  <2>3. QED
    BY <2>1, <2>2
<1> DEFINE cur == Current(arena, gen, c)
<1>7. cur \in Binding /\ (cur.kind = "none" => cur = Absent) /\ (arena[c] # Free => cur = arena[c].b)
  BY <1>2, <1>4, CurrentTyped DEF Current
<1> HIDE DEF c, cur
<1>8. /\ arena' \in [Key -> Slot] /\ arena'[c] = s
      /\ \A k \in Key : k # c => arena'[k] = arena[k]
  BY <1>2, <1>3, <1>4, <1>5
<1>9. /\ out' \in [Key -> Binding] /\ out'[c] = cur
      /\ \A k \in Key : k # c => out'[k] = out[k]
  BY <1>2, <1>3, <1>4, <1>7 DEF cur
<1>10. Good(arena')
  <2>1. Occupied(arena') = Occupied(arena)
    BY <1>2, <1>6, <1>8 DEF Occupied
  <2>2. \A k \in Key : arena'[k] # Free => arena'[k].b.kind # "none"
    BY <1>4, <1>5, <1>6, <1>8 DEF Good
  <2>3. QED
    BY <1>4, <1>8, <2>1, <2>2 DEF Good
<1>11. Shaped(out')
  BY <1>4, <1>7, <1>9 DEF Shaped, Generation
<1>12. Typed'
  <2>1. cursor' \in 0..Keys
    BY <1>2 DEF c
  <2>2. QED
    BY <1>3, <1>10, <1>11, <2>1 DEF IInv, Typed
<1>13. CoveredExact'
  BY <1>3, <1>5, <1>8 DEF IInv, CoveredExact
<1>14. ASSUME NEW k \in Key, Marked(arena'[k]), k <= c
       PROVE  arena'[k].emitted /\ out'[k] = arena'[k].b
  <2>1. CASE k = c
    <3>1. arena[c] # Free
      <4>1. ~Marked(Free)
        BY DEF Marked, Free
      <4>2. QED
        BY <1>6, <1>8, <1>14, <2>1, <4>1
    <3>2. QED
      BY <1>5, <1>7, <1>8, <1>9, <2>1, <3>1
  <2>2. CASE k # c /\ k <= cursor
    BY <1>3, <1>8, <1>9, <1>14, <2>2 DEF IInv, Merging
  <2>3. CASE k # c /\ ~(k <= cursor)
    <3>1. k > cursor /\ k \notin Unmerged
      <4>1. k \in Nat /\ k < c
        BY <1>2, <1>14, <2>3, KeysAssumption DEF Key
      <4>2. QED
        BY <1>1, <1>2, <2>3, <4>1 DEF c
    <3>2. Current(arena, gen, k) = Absent
      BY <3>1 DEF Unmerged
    <3>3. arena[k] = Free
      BY <1>4, <3>2, CurrentTyped
    <3>4. QED
      BY <1>8, <1>14, <2>3, <3>3 DEF Marked, Free
  <2>4. QED
    BY <2>1, <2>2, <2>3
<1>15. Merging'
  BY <1>3, <1>14 DEF Merging, c
<1>16. QED
  BY <1>12, <1>13, <1>15 DEF IInv

\* The merge done: no key beyond the cursor is bound, so every mark is a true one.
LEMMA MergeDoneStep ==
    ASSUME IInv, MergeDone
    PROVE  IInv'
<1>1. /\ UNCHANGED <<mode, arena, gen, newer, log, tail, wal, reserved, pos, cursor, out, decided,
                     strained>>
      /\ phase = "merge" /\ phase' = "finish" /\ Unmerged = {}
  BY DEF MergeDone
<1>2. Good(arena) /\ Shaped(gen) /\ cursor \in Nat
  BY DEF IInv, Typed
<1>3. ASSUME NEW k \in Key, Marked(arena[k]) PROVE k <= cursor
  <2> SUFFICES ASSUME ~(k <= cursor) PROVE FALSE
    OBVIOUS
  <2>1. k > cursor
    BY <1>2 DEF Key
  <2>2. Current(arena, gen, k) = Absent
    BY <1>1, <2>1 DEF Unmerged
  <2>3. arena[k] = Free
    BY <1>2, <2>2, CurrentTyped
  <2>4. QED
    BY <1>3, <2>3 DEF Marked, Free
<1>4. Typed'
  BY <1>1 DEF IInv, Typed
<1>5. Merging' /\ CoveredExact'
  BY <1>1, <1>3 DEF IInv, Merging, CoveredExact
<1>6. QED
  BY <1>4, <1>5 DEF IInv

\* The generation written, opened or given up.
LEMMA GenerationStep ==
    ASSUME IInv, NEW written \in BOOLEAN, Finish \/ Reopen \/ CompactionAbort(written)
    PROVE  IInv'
<1>1. CASE Finish
  <2>1. /\ UNCHANGED <<mode, arena, gen, log, tail, wal, reserved, pos, cursor, out, decided, strained>>
        /\ phase = "finish" /\ phase' = "reopen" /\ newer' = out
    BY <1>1 DEF Finish
  <2>2. Typed'
    BY <2>1 DEF IInv, Typed
  <2>3. Merging' /\ CoveredExact'
    BY <2>1 DEF IInv, Merging, CoveredExact
  <2>4. QED
    BY <2>2, <2>3 DEF IInv
<1>2. CASE CompactionAbort(written)
  <2>1. /\ UNCHANGED <<mode, arena, gen, log, tail, wal, reserved, pos, cursor, out, decided, strained>>
        /\ phase' = "idle" /\ newer' \in {newer, out}
    BY <1>2 DEF CompactionAbort
  <2>2. Typed'
    BY <2>1 DEF IInv, Typed
  <2>3. Merging' /\ CoveredExact'
    BY <2>1 DEF IInv, Merging, CoveredExact
  <2>4. QED
    BY <2>2, <2>3 DEF IInv
<1>3. CASE Reopen
  <2> DEFINE fin(k) == IF arena[k].emitted
                       THEN [arena[k] EXCEPT !.covered = TRUE, !.emitted = FALSE] ELSE arena[k]
  <2>1. /\ UNCHANGED <<mode, log, tail, wal, reserved, pos, cursor, out, decided, strained>>
        /\ phase = "reopen" /\ phase' \in {"idle", "rotate"} /\ gen' = newer /\ newer' = EmptyGen
        /\ arena' = [k \in Key |-> fin(k)]
    BY <1>3 DEF Reopen
  <2>2. Good(arena) /\ Shaped(newer) /\ Shaped(EmptyGen) /\ newer = out
    <3>1. Shaped(EmptyGen)
      BY Blanks DEF Shaped, Generation, EmptyGen
    <3>2. QED
      BY <2>1, <3>1 DEF IInv, Typed, Merging
  <2>3. ASSUME NEW k \in Key
        PROVE  /\ fin(k) \in Slot /\ fin(k).b = arena[k].b /\ (fin(k) = Free <=> arena[k] = Free)
               /\ fin(k).covered => arena[k].covered \/ arena[k].emitted
    <3>1. arena[k] \in Slot
      BY <2>2 DEF Good
    <3>2. CASE arena[k].emitted
      <4>1. /\ fin(k) \in Slot /\ fin(k).b = arena[k].b /\ fin(k).covered
        BY <3>1, <3>2 DEF Slot
      <4>2. Free.covered = FALSE /\ Free.emitted = FALSE
        BY DEF Free
      <4> HIDE DEF fin
      <4>3. QED
        BY <3>2, <4>1, <4>2
    <3>3. CASE ~arena[k].emitted
      BY <3>1, <3>3
    <3>4. QED
      BY <3>2, <3>3
  <2> HIDE DEF fin
  <2>4. Good(arena')
    <3>1. arena' \in [Key -> Slot] /\ \A k \in Key : arena'[k] = fin(k)
      BY <2>1, <2>3
    <3>2. Occupied(arena') = Occupied(arena)
      BY <2>3, <3>1 DEF Occupied
    <3>3. \A k \in Key : arena'[k] # Free => arena'[k].b.kind # "none"
      BY <2>2, <2>3, <3>1 DEF Good
    <3>4. QED
      BY <2>2, <3>1, <3>2, <3>3 DEF Good
  <2>5. Typed'
    BY <2>1, <2>2, <2>4 DEF IInv, Typed
  <2>6. CoveredExact'
    <3>1. ASSUME NEW k \in Key, arena'[k].covered PROVE gen'[k] = arena'[k].b
      <4>1. Marked(arena[k]) /\ arena'[k].b = arena[k].b
        BY <2>1, <2>3, <3>1 DEF Marked
      <4>2. out[k] = arena[k].b
        BY <2>1, <4>1 DEF IInv, Merging
      <4>3. QED
        BY <2>1, <2>2, <4>1, <4>2
    <3>2. QED
      BY <3>1 DEF CoveredExact
  <2>7. Merging'
    BY <2>1 DEF Merging
  <2>8. QED
    BY <2>5, <2>6, <2>7 DEF IInv
<1>4. QED
  BY <1>1, <1>2, <1>3

\* The log rotated, or left as it was.
LEMMA RotateStep ==
    ASSUME IInv, NEW reopened \in BOOLEAN, Rotate(reopened) \/ RotateSkipped
    PROVE  IInv'
<1>1. /\ UNCHANGED <<mode, arena, gen, newer, reserved, pos, cursor, out, decided, strained>>
      /\ mode = "ready" /\ phase' = "idle" /\ wal' \in {"ok", "lost", wal}
      /\ \/ log' = Seeds /\ tail' = "applied"
         \/ log' = log /\ tail' = tail
  BY DEF Rotate, RotateSkipped
<1>2. Good(arena) /\ pos = 0 /\ log \in Seq(Logged)
  BY <1>1 DEF IInv, Typed
<1>3. log' \in Seq(Logged) /\ pos' \in 0..Len(log') /\ (tail' # "applied" => log' # <<>>)
  <2>1. log' \in Seq(Logged)
    BY <1>1, <1>2, SeedsLogged
  <2>2. Len(log') \in Nat
    BY <2>1
  <2>3. pos' \in 0..Len(log')
    BY <1>1, <1>2, <2>2
  <2>4. QED
    BY <1>1, <2>1, <2>3 DEF IInv, Typed
<1>4. Typed'
  BY <1>1, <1>3 DEF IInv, Typed
<1>5. Merging' /\ CoveredExact'
  BY <1>1 DEF IInv, Merging, CoveredExact
<1>6. QED
  BY <1>4, <1>5 DEF IInv

\* A crash: the arena goes with the memory, and the best generation is opened.
LEMMA CrashStep ==
    ASSUME IInv, Crash
    PROVE  IInv'
<1>1. /\ mode' = "boot" /\ arena' = EmptyArena /\ newer' = EmptyGen /\ out' = EmptyGen
      /\ gen' \in {gen, newer} /\ wal' = "ok" /\ reserved' = {} /\ pos' = 0
      /\ phase' = "idle" /\ cursor' = 0
      /\ UNCHANGED <<log, decided, strained>>
  BY DEF Crash
<1>2. tail' \in {"applied", "owed"} /\ (tail' # "applied" => tail # "applied")
  BY DEF Crash
<1>3. pos' \in 0..Len(log') /\ cursor' \in 0..Keys
  <2>1. Len(log) \in Nat /\ Keys \in Nat
    BY KeysAssumption DEF IInv, Typed
  <2>2. QED
    BY <1>1, <2>1
<1>4. Shaped(gen')
  BY <1>1 DEF IInv, Typed
<1>5. Good(arena') /\ Shaped(newer') /\ Shaped(out') /\ \A k \in Key : arena'[k] = Free
  BY <1>1, EmptyGood
<1>6. Typed'
  BY <1>1, <1>2, <1>3, <1>4, <1>5 DEF IInv, Typed
<1>7. Merging' /\ CoveredExact'
  BY <1>1, <1>5 DEF Merging, CoveredExact, Free
<1>8. QED
  BY <1>6, <1>7 DEF IInv

\* A record replayed.
LEMMA ReplayStep ==
    ASSUME IInv, Replay
    PROVE  IInv'
<1> DEFINE r == log[pos + 1]
<1>1. /\ log \in Seq(Logged) /\ pos \in 0..Len(log) /\ Len(log) \in Nat /\ pos < Len(log)
      /\ pos' = pos + 1
  BY DEF IInv, Typed, Replay
<1>2. pos + 1 \in 1..Len(log) /\ pos' \in 0..Len(log)
  BY <1>1
<1>3. r \in Logged
  BY <1>1, <1>2
<1> HIDE DEF r
<1>4. /\ UNCHANGED <<mode, gen, newer, log, tail, wal, reserved, phase, cursor, out>>
      /\ mode = "boot"
  BY DEF Replay, compaction
<1>5. /\ Good(arena') /\ decided' \in Generation /\ Merging' /\ CoveredExact'
      /\ strained' \in BOOLEAN
  <2>1. CASE r.op \in {"reserve", "release"}
    <3>1. UNCHANGED <<arena, decided, strained>>
      BY <2>1 DEF Replay, r
    <3>2. Merging' /\ CoveredExact'
      BY <1>4, <3>1, QuietKeeps DEF IInv
    <3>3. Good(arena') /\ decided' \in Generation /\ strained' \in BOOLEAN
      BY <3>1 DEF IInv, Typed
    <3>4. QED
      BY <3>2, <3>3
  <2>2. CASE r.op \notin {"reserve", "release"}
    <3>1. PICK o \in Applied(arena, gen, reserved, r) :
            /\ arena' = o.arena
            /\ decided' = IF o.status = "ok" /\ tail = "owed" /\ pos' = Len(log)
                          THEN Acknowledged(r, o.arena) ELSE decided
            /\ strained' = (strained \/ o.status = "noroom")
      BY <2>2 DEF Replay, r
    <3>2. decided' = decided \/ decided' = Acknowledged(r, o.arena)
      BY <3>1
    <3>3. Good(arena') /\ decided' \in Generation /\ Merging' /\ CoveredExact'
      BY <1>3, <1>4, <2>2, <3>1, <3>2, ApplyStep
    <3>4. strained' \in BOOLEAN
      BY <3>1
    <3>5. QED
      BY <3>3, <3>4
  <2>3. QED
    BY <2>1, <2>2
<1>6. Typed'
  BY <1>2, <1>4, <1>5 DEF IInv, Typed
<1>7. QED
  BY <1>5, <1>6 DEF IInv

\* The boot over.
LEMMA BootDoneStep ==
    ASSUME IInv, BootDone
    PROVE  IInv'
<1>1. /\ mode' = "ready" /\ pos' = 0 /\ tail' = "applied"
      /\ UNCHANGED <<arena, gen, newer, log, wal, reserved, decided, strained, phase, cursor, out>>
  BY DEF BootDone, compaction
<1>2. Len(log) \in Nat
  BY DEF IInv, Typed
<1>3. pos' \in 0..Len(log')
  BY <1>1, <1>2
<1>4. Typed'
  BY <1>1, <1>3 DEF IInv, Typed
<1>5. QED
  BY <1>1, <1>4, QuietKeeps DEF IInv

\* Every step keeps the invariant.
LEMMA NextIInv == IInv /\ [Next]_vars => IInv'
<1> SUFFICES ASSUME IInv, [Next]_vars PROVE IInv'
  OBVIOUS
<1>1. CASE Serve
  BY <1>1, StagedStep, ReservationStep, ReplayStep, BootDoneStep DEF Serve
<1>2. CASE Compact
  BY <1>2, StartStep, MergeStep, MergeDoneStep, GenerationStep, RotateStep DEF Compact
<1>3. ASSUME NEW r \in Requests, LogRequest(r) \/ \E survives \in BOOLEAN : LogFails(r, survives)
      PROVE  IInv'
  BY <1>3, LogStep
<1>4. ASSUME NEW k \in Key, NEW o \in Oid, ProviderBind(k, o)
      PROVE  IInv'
  BY <1>4, ProviderStep
<1>5. ASSUME NEW written \in BOOLEAN, CompactionAbort(written)
      PROVE  IInv'
  BY <1>5, GenerationStep
<1>6. CASE Rotate(FALSE) \/ RotateSkipped
  BY <1>6, RotateStep
<1>7. CASE Crash
  BY <1>7, CrashStep
<1>8. CASE UNCHANGED vars
  <2>1. UNCHANGED <<arena, gen, newer, phase, cursor, out>>
    BY <1>8 DEF vars
  <2>2. Typed'
    BY <1>8 DEF vars, IInv, Typed
  <2>3. QED
    BY <2>1, <2>2, QuietKeeps DEF IInv
<1>9. QED
  BY <1>1, <1>2, <1>3, <1>4, <1>5, <1>6, <1>7, <1>8 DEF Next

-------------------------------------------------------------------------------
(***************************************************************************)
(* The theorems.                                                           *)
(***************************************************************************)

\* The invariant the rest rests on: a well-typed state, an arena within its
\* capacity, the marks of a running merge true of the generation it writes, and
\* the covered marks true of the one that is open (mark_emitted,
\* finalize_emitted, boot_step).
THEOREM Inductive == Spec => []IInv
<1>1. QED
  BY InitIInv, NextIInv, PTL DEF Spec

\* The router's state has its types, the log holds records a replay can decode,
\* and the arena never has more slots occupied than it has, whatever is written,
\* replayed or renamed into it (find_or_claim, restore_binding).
THEOREM TypeCorrect == Spec => []TypeOK
<1>1. IInv => TypeOK
  <2> SUFFICES ASSUME IInv PROVE TypeOK
    OBVIOUS
  <2>1. log \in Seq(Record)
    <3>1. Logged \subseteq Record
      BY DEF Logged
    <3>2. QED
      BY <3>1 DEF IInv, Typed
  <2>2. QED
    BY <2>1 DEF IInv, Typed, Good, Shaped, TypeOK
<1>2. QED
  BY <1>1, Inductive, PTL

\* A slot marked covered holds what the open generation holds: evicting it
\* changes no answer, though the key was written while its record was on its way
\* into the generation, the compaction was aborted and begun again, or the
\* router was restarted (mark_emitted, finalize_emitted, find_or_claim).
THEOREM CoveredStayExact == Spec => []CoveredExact
<1>1. IInv => CoveredExact
  BY DEF IInv
<1>2. QED
  BY <1>1, Inductive, PTL
===============================================================================
