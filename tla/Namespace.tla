------------------------------ MODULE Namespace ------------------------------
(***************************************************************************)
(* The namespace router: bindings kept in a bounded arena over an on-disk  *)
(* snapshot, every change logged before it is applied, the snapshot        *)
(* rewritten by a compaction that merges the two while writes go on, the   *)
(* log rotated after it, and all of it rebuilt by a boot that replays the  *)
(* log over the best snapshot.  From namespace_pic_body.rs (step_body,     *)
(* resolve_staged, boot_step, replay_slice, compaction_step, merge_slice)  *)
(* and loam_snapshot.rs (SnapWriter, the choice of generation).            *)
(*                                                                         *)
(* The log is the sequence of records a replay would hand back; WalIo is   *)
(* about how the device keeps it.  A crash loses everything in memory.     *)
(* decided is what the router has answered: each key as the records        *)
(* acknowledged so far leave it.                                           *)
(***************************************************************************)
EXTENDS NamespaceOps, Sequences

CONSTANTS
    Ops,         \* the operations this instance performs
    MaxRev,      \* bound on revisions
    MaxNow,      \* bound on stamps
    MaxLog       \* bound on the length of the log

OpNames == {"put", "bind", "unbind", "retain", "rename", "commit", "delete",
            "reserve", "provider"}

ASSUME OpsAssumption == Ops \subseteq OpNames
ASSUME BoundsAssumption == MaxRev \in Nat /\ MaxNow \in Nat /\ MaxLog \in Nat

VARIABLES
    mode,        \* "boot" while the log is replayed, then "ready"
    arena,       \* bindings
    gen,         \* the open snapshot generation
    newer,       \* a later generation on disk, not opened; EmptyGen if none
    log,         \* the records a replay would hand back
    tail,        \* the last one: applied, staged, refused with its fence, or
                 \* (history, during a boot) owed an answer by that boot
    wal,         \* the descriptor and its appender: "ok", "broken", "lost"
    reserved,    \* gc_reserved
    pos,         \* records replayed by this boot
    phase,       \* cmp_phase
    cursor,      \* the merge has written every key up to this one
    out,         \* the generation being written
    \* History, read by no action:
    decided,     \* each key as acknowledged
    strained     \* whether a record was ever refused for want of a slot

disk == <<newer, log>>
compaction == <<phase, cursor, out>>
vars == <<mode, arena, gen, newer, log, tail, wal, reserved, pos, phase, cursor,
          out, decided, strained>>

Generation == [Key -> Binding]

TypeOK ==
    /\ mode \in {"boot", "ready"}
    /\ arena \in [Key -> Slot]
    /\ gen \in Generation
    /\ newer \in Generation
    /\ log \in Seq(Record)
    /\ tail \in {"applied", "staged", "refused", "owed"}
    /\ tail # "applied" => log # <<>>
    /\ wal \in {"ok", "broken", "lost"}
    /\ reserved \subseteq Oid
    /\ pos \in 0..Len(log)
    /\ phase \in {"idle", "merge", "finish", "reopen", "rotate"}
    /\ cursor \in 0..Keys
    /\ out \in Generation
    /\ decided \in Generation
    /\ strained \in BOOLEAN
    /\ Cardinality(Occupied(arena)) <= Cap

Init ==
    /\ mode = "boot"
    /\ arena = EmptyArena
    /\ gen = EmptyGen
    /\ newer = EmptyGen
    /\ log = <<>>
    /\ tail = "applied"
    /\ wal = "ok"
    /\ reserved = {}
    /\ pos = 0
    /\ phase = "idle"
    /\ cursor = 0
    /\ out = EmptyGen
    /\ decided = EmptyGen
    /\ strained = FALSE

View == [k \in Key |-> Current(arena, gen, k)]

(***************************************************************************)
(* The records the router is sent.  A composed writer (PutFile, DeleteFile *)
(* and Retain of the admin router) and a volume's writer have read the     *)
(* key's revision, now or earlier, and write the next one on condition     *)
(* that it still holds.                                                    *)
(* BIND carries its caller's revision and no condition.                    *)
(***************************************************************************)
ReadRev(k) == {e \in 0..decided[k].rev : e < MaxRev}

Put(k, e, o, u, h, now) ==
    [Blank EXCEPT !.op = "bind", !.key = k, !.rev = e + 1, !.cond = "revision",
                  !.expect = e, !.oid = o, !.until = u, !.hold = h, !.now = now]
Unbind(k, e, now) ==
    [Blank EXCEPT !.op = "unbind", !.key = k, !.rev = e + 1, !.cond = "revision",
                  !.expect = e, !.now = now]
Retain(k, e, u, h) ==
    [Blank EXCEPT !.op = "retain", !.key = k, !.rev = e + 1, !.expect = e, !.until = u,
                  !.hold = h]
Bind(k, n, o) == [Blank EXCEPT !.op = "bind", !.key = k, !.rev = n, !.oid = o]
Rename(k, j, n) == [Blank EXCEPT !.op = "rename", !.key = k, !.to = j, !.rev = n]
Commit(k, e, o) == [Blank EXCEPT !.op = "commit", !.key = k, !.expect = e, !.oid = o]
Delete(k, e) == [Blank EXCEPT !.op = "delete", !.key = k, !.expect = e]
Reservation(op, o) == [Blank EXCEPT !.op = op, !.oid = o]

Sent(op, records) == IF op \in Ops THEN records ELSE {}

RequestsOf(k) ==
         Sent("put", {Put(k, e, o, u, h, now) :
                        e \in ReadRev(k), o \in Oid, u \in Until,
                        h \in IF "retain" \in Ops THEN {"set", "clear"} ELSE {"clear"},
                        now \in 0..MaxNow})
    \cup Sent("bind", {Bind(k, n, o) : n \in 1..MaxRev, o \in Oid})
    \cup Sent("unbind", {Unbind(k, e, now) : e \in ReadRev(k), now \in 0..MaxNow})
    \cup Sent("retain", {Retain(k, e, u, h) : e \in ReadRev(k), u \in Until,
                                             h \in {"set", "clear", "keep"}})
    \cup Sent("rename", {Rename(k, j, n) : j \in Key, n \in 1..MaxRev})
    \cup Sent("commit", {Commit(k, e, o) : e \in ReadRev(k), o \in Oid})
    \cup Sent("delete", {Delete(k, e) : e \in ReadRev(k) \ {0}})

Requests ==
    (UNION {RequestsOf(k) : k \in Key})
      \cup Sent("reserve", {Reservation(op, o) : op \in {"reserve", "release"}, o \in Oid})

(***************************************************************************)
(* A mutating request (step_body): logged first, applied once the append   *)
(* is durable.  Until then it owns the step.  None is taken while the log  *)
(* is being rotated.  An append that fails before any byte reached the     *)
(* file changes nothing; one that fails after has broken the log, and its  *)
(* record, though refused, may be there when the log is next replayed.     *)
(***************************************************************************)
CanLog ==
    /\ mode = "ready"
    /\ tail # "staged"
    /\ phase # "rotate"
    /\ wal = "ok"
    /\ Len(log) < MaxLog

LogRequest(r) ==
    /\ CanLog
    /\ log' = Append(log, r)
    /\ tail' = "staged"
    /\ UNCHANGED <<mode, arena, gen, newer, wal, reserved, pos, decided, strained>>
    /\ UNCHANGED compaction

LogFails(r, survives) ==
    /\ CanLog
    /\ wal' = "broken"
    /\ log' = IF survives THEN Append(log, r) ELSE log
    /\ tail' = IF survives THEN "refused" ELSE "applied"
    /\ UNCHANGED <<mode, arena, gen, newer, reserved, pos, decided, strained>>
    /\ UNCHANGED compaction

\* What a record acknowledged leaves of the keys as acknowledged; p is the
\* arena it left, which decides a rename's revisions.
Acknowledged(r, p) ==
    IF r.op = "rename"
    THEN [decided EXCEPT ![r.key] = p[r.key].b, ![r.to] = p[r.to].b]
    ELSE [decided EXCEPT ![r.key] = Written(decided[r.key], r)]

\* resolve_staged, for a record with a key.
ApplyStaged ==
    LET r == log[Len(log)]
    IN  /\ mode = "ready"
        /\ tail = "staged"
        /\ r.op \notin {"reserve", "release"}
        /\ \E o \in Applied(arena, gen, reserved, r) :
              /\ arena' = o.arena
              /\ decided' = IF o.status = "ok" THEN Acknowledged(r, o.arena) ELSE decided
              /\ strained' = (strained \/ o.status = "noroom")
        /\ tail' = "applied"
        /\ UNCHANGED <<mode, gen, newer, log, wal, reserved, pos>>
        /\ UNCHANGED compaction

\* resolve_staged, for a deletion reservation or its release.
ApplyReservation ==
    LET r == log[Len(log)]
    IN  /\ mode = "ready"
        /\ tail = "staged"
        /\ r.op \in {"reserve", "release"}
        /\ reserved' = IF r.op = "reserve" THEN reserved \cup {r.oid}
                                           ELSE reserved \ {r.oid}
        /\ tail' = "applied"
        /\ UNCHANGED <<mode, arena, gen, newer, log, wal, pos, decided, strained>>
        /\ UNCHANGED compaction

\* BIND on the provider surface (dispatch_op): the arena alone, no log.
ProviderBind(k, o) ==
    LET b   == arena[k].b
        new == [kind |-> "object", rev |-> b.rev + 1, oid |-> o, until |-> 0,
                hold |-> FALSE]
    IN  /\ "provider" \in Ops
        /\ mode = "ready"
        /\ b.rev < MaxRev
        /\ View[k].kind # "volume"
        /\ ~RetainedAt(View[k], 0)
        /\ k \in Occupied(arena) \/ Cardinality(Occupied(arena)) < Cap
        /\ arena' \in Placed(arena, k, new, {})
        /\ decided' = [decided EXCEPT ![k] = new]
        /\ UNCHANGED <<mode, gen, newer, log, tail, wal, reserved, pos, strained>>
        /\ UNCHANGED compaction

(***************************************************************************)
(* Compaction (compaction_step).  Triggered by an arena three quarters     *)
(* full with enough of it dirty; merges the arena and the open generation  *)
(* in key order, a key per step here, with requests served in between.     *)
(***************************************************************************)
\* Mutant: a later generation waits for its share of dirty slots.
TriggeredLate ==
    LET occupied == Cardinality(Occupied(arena))
    IN  /\ occupied * 4 >= Cap * 3
        /\ gen = EmptyGen

Triggered ==
    LET occupied == Cardinality(Occupied(arena))
        dirty    == Cardinality(Dirty(arena))
    IN  /\ occupied * 4 >= Cap * 3
        /\ \/ gen = EmptyGen
           \/ dirty * 8 >= Cap
           \/ occupied = Cap /\ dirty > 0

\* The target slot is unlinked and created; a generation left there goes.
CompactionStart ==
    /\ mode = "ready"
    /\ phase = "idle"
    /\ tail # "staged"
    /\ Triggered
    /\ phase' = "merge"
    /\ cursor' = 0
    /\ out' = EmptyGen
    /\ newer' = EmptyGen
    /\ UNCHANGED <<mode, arena, gen, log, tail, wal, reserved, pos, decided, strained>>

Unmerged == {k \in Key : k > cursor /\ Current(arena, gen, k) # Absent}

Merge ==
    /\ mode = "ready"
    /\ phase = "merge"
    /\ tail # "staged"
    /\ Unmerged # {}
    /\ cursor' = CHOOSE k \in Unmerged : \A j \in Unmerged : k <= j
    /\ out' = [out EXCEPT ![cursor'] = Current(arena, gen, cursor')]
    /\ arena' = [arena EXCEPT ![cursor'].emitted = arena[cursor'] # Free]
    /\ UNCHANGED <<mode, gen, newer, log, tail, wal, reserved, pos, phase, decided,
                   strained>>

MergeDone ==
    /\ mode = "ready"
    /\ phase = "merge"
    /\ tail # "staged"
    /\ Unmerged = {}
    /\ phase' = "finish"
    /\ UNCHANGED <<mode, arena, gen, newer, log, tail, wal, reserved, pos, cursor,
                   out, decided, strained>>

\* Fences, header, fence, name: the generation is the best on disk.
Finish ==
    /\ mode = "ready"
    /\ phase = "finish"
    /\ tail # "staged"
    /\ phase' = "reopen"
    /\ newer' = out
    /\ UNCHANGED <<mode, arena, gen, log, tail, wal, reserved, pos, cursor, out,
                   decided, strained>>

\* The generation is opened; what it holds and was not written since is
\* covered (finalize_emitted).  With no log there is nothing to rotate.
Reopen ==
    /\ mode = "ready"
    /\ phase = "reopen"
    /\ tail # "staged"
    /\ gen' = newer
    /\ newer' = EmptyGen
    /\ arena' = [k \in Key |->
                   IF arena[k].emitted
                   THEN [arena[k] EXCEPT !.covered = TRUE, !.emitted = FALSE]
                   ELSE arena[k]]
    /\ phase' = IF wal = "lost" THEN "idle" ELSE "rotate"
    /\ UNCHANGED <<mode, log, tail, wal, reserved, pos, cursor, out, decided, strained>>

\* compaction_abort.  A finish that fails may have written a header that a
\* later boot finds valid.
CompactionAbort(written) ==
    /\ mode = "ready"
    /\ tail # "staged"
    /\ phase \in {"merge", "finish", "reopen"}
    /\ written => phase = "finish"
    /\ phase' = "idle"
    /\ newer' = IF written THEN out ELSE newer
    /\ UNCHANGED <<mode, arena, gen, log, tail, wal, reserved, pos, cursor, out,
                   decided, strained>>

(***************************************************************************)
(* The rotation that follows (CMP_ROTATE): the new log opens with a record *)
(* per arena entry the generation does not cover (seed_binding).           *)
(***************************************************************************)
\* Mutant: the retention is not carried.
SeedBare(k) ==
    LET b == arena[k].b
    IN  [Blank EXCEPT !.op = "restore", !.key = k, !.rev = b.rev, !.oid = b.oid,
                      !.kind = b.kind]

Seed(k) ==
    LET b == arena[k].b
    IN  [Blank EXCEPT !.op = "restore", !.key = k, !.rev = b.rev, !.oid = b.oid,
                      !.kind = b.kind, !.until = b.until,
                      !.hold = IF b.hold THEN "set" ELSE "clear"]

\* Mutant: the rotated log starts empty.
NoSeeds == <<>>

Seeds ==
    LET upto[n \in 0..Keys] ==
          IF n = 0 THEN <<>>
          ELSE IF n \in Dirty(arena) THEN Append(upto[n - 1], Seed(n))
          ELSE upto[n - 1]
    IN  upto[Keys]

\* Rotated or Lost: the old log, and a refused record at its tail, are gone.
Rotate(reopened) ==
    /\ mode = "ready"
    /\ phase = "rotate"
    /\ tail # "staged"
    /\ log' = Seeds
    /\ tail' = "applied"
    /\ wal' = IF reopened THEN "ok" ELSE "lost"
    /\ phase' = "idle"
    /\ UNCHANGED <<mode, arena, gen, newer, reserved, pos, cursor, out, decided,
                   strained>>

RotateSkipped ==
    /\ mode = "ready"
    /\ phase = "rotate"
    /\ tail # "staged"
    /\ phase' = "idle"
    /\ UNCHANGED <<mode, arena, gen, newer, log, tail, wal, reserved, pos, cursor,
                   out, decided, strained>>

(***************************************************************************)
(* A crash, and the boot after it: the best generation is opened and the   *)
(* log replayed over it, a record per step.  Reservations are not          *)
(* reinstated.  A record logged and not applied, or refused with its fence *)
(* and still there, is decided by the replay.                              *)
(***************************************************************************)
Crash ==
    /\ mode' = "boot"
    /\ arena' = EmptyArena
    /\ gen' = IF newer # EmptyGen THEN newer ELSE gen
    /\ newer' = EmptyGen
    /\ tail' = IF tail = "applied" THEN "applied" ELSE "owed"
    /\ wal' = "ok"
    /\ reserved' = {}
    /\ pos' = 0
    /\ phase' = "idle"
    /\ cursor' = 0
    /\ out' = EmptyGen
    /\ UNCHANGED <<log, decided, strained>>

Replay ==
    LET r == log[pos + 1]
    IN  /\ mode = "boot"
        /\ pos < Len(log)
        /\ pos' = pos + 1
        /\ IF r.op \in {"reserve", "release"}
           THEN UNCHANGED <<arena, decided, strained>>
           ELSE \E o \in Applied(arena, gen, reserved, r) :
                   /\ arena' = o.arena
                   /\ decided' = IF /\ o.status = "ok"
                                    /\ tail = "owed"
                                    /\ pos' = Len(log)
                                 THEN Acknowledged(r, o.arena) ELSE decided
                   /\ strained' = (strained \/ o.status = "noroom")
        /\ UNCHANGED <<mode, gen, newer, log, tail, wal, reserved>>
        /\ UNCHANGED compaction

BootDone ==
    /\ mode = "boot"
    /\ pos = Len(log)
    /\ mode' = "ready"
    /\ pos' = 0
    /\ tail' = "applied"
    /\ UNCHANGED <<arena, gen, newer, log, wal, reserved, decided, strained>>
    /\ UNCHANGED compaction

\* What owns a step until it is done.
Serve == ApplyStaged \/ ApplyReservation \/ Replay \/ BootDone

\* compaction_step, as far as a device that does not fail takes it.
Compact ==
    \/ CompactionStart \/ Merge \/ MergeDone \/ Finish \/ Reopen
    \/ Rotate(TRUE)

Next ==
    \/ Serve
    \/ Compact
    \/ \E r \in Requests :
          \/ LogRequest(r)
          \/ \E survives \in BOOLEAN : LogFails(r, survives)
    \/ \E k \in Key, o \in Oid : ProviderBind(k, o)
    \/ \E written \in BOOLEAN : CompactionAbort(written)
    \/ Rotate(FALSE)
    \/ RotateSkipped
    \/ Crash

Spec == Init /\ [][Next]_vars

\* The router on a device that does not fail.  The kernel steps it again and
\* again, and every step that no staged record owns polls the compaction
\* before it takes a request.
FaultlessNext ==
    \/ Serve
    \/ Compact
    \/ \E r \in Requests : LogRequest(r)
    \/ \E k \in Key, o \in Oid : ProviderBind(k, o)

FaultlessSpec ==
    Init /\ [][FaultlessNext]_vars /\ WF_vars(Serve) /\ SF_vars(Compact)

-------------------------------------------------------------------------------
(***************************************************************************)
(* Properties.                                                             *)
(***************************************************************************)

\* While the router serves, every key reads exactly as the acknowledged
\* records left it, and no refused record shows: whatever was evicted,
\* merged, rotated away or lost in a crash since (apply_op, merge_slice,
\* seed_binding, restore_binding, boot_step).
ViewExact == mode = "ready" => View = decided

\* The same while the arena has never run out of slots.
ViewExactWithRoom == ~strained => ViewExact

\* A slot marked covered holds what the open generation holds, so that
\* evicting it changes no answer, even if the key was written while its
\* record was on its way into the generation (mark_emitted, finalize_emitted).
CoveredExact == \A k \in Key : arena[k].covered => gen[k] = arena[k].b

\* A held binding keeps its content, and a retained one keeps it from every
\* record stamped within its retention, which only ever grows: by whatever
\* road a record arrives, live or replayed (retained_at, apply_retain).
RetentionKept ==
    [][\A k \in Key :
          Live(decided[k]) /\ decided'[k] # decided[k] =>
             \/ ~RetainedAt(decided[k], log[Len(log)].now)
             \/ /\ decided'[k].oid = decided[k].oid
                /\ decided'[k].kind = decided[k].kind
                /\ decided'[k].until >= decided[k].until]_vars

\* A compaction ends, though requests are served between its steps and may
\* write keys ahead of it and behind it (merge_slice, compaction_step).  And an
\* arena with no slot free and none to evict does not stay so while every
\* write is refused: the compaction makes room, and only writes that go on
\* being acknowledged can take it away again (compaction_start's trigger).
RoomReturns ==
    LET wedged == Cardinality(Occupied(arena)) = Cap /\ Evictable(arena) = {}
    IN  /\ (phase # "idle") ~> (phase = "idle")
        /\ <>[][decided' = decided]_vars => (wedged ~> ~wedged)
===============================================================================
