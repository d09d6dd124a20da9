----------------------------- MODULE VolumeLease -----------------------------
(***************************************************************************)
(* Volume writers, their leases and the orphan sweep, as the namespace     *)
(* router decides them in log order.  Each action is one record applied by *)
(* apply_op (namespace_pic_body.rs): a lease record, a volume record, a    *)
(* deletion reservation, a plain bind of a volume's key; or one step of    *)
(* the sweep that the admin router drives (admin_router_body.rs).          *)
(*                                                                         *)
(* A record's stamp is any time: several servers stamp records from their  *)
(* own clocks, and the log may deliver a record late or twice.  Nothing    *)
(* here assumes stamps arrive in order, so redelivering any earlier record *)
(* is one of the steps.  A record that is refused without touching any     *)
(* state is a stuttering step.                                             *)
(***************************************************************************)
EXTENDS LeaseTable, FiniteSets

CONSTANTS
    Root,        \* ids of volume map roots
    NoRoot,      \* what an unbound or plain key names
    Body,        \* ids the sweep may reserve
    NoBody,      \* the candidate of an idle sweep
    GcSlots,     \* GC_RESERVE_MAX
    MaxNow,      \* bound on stamps
    MaxFence,    \* bound on the fences issued
    MaxRev       \* bound on revisions

ASSUME GcSlotsAssumption == GcSlots \in Nat \ {0}
ASSUME BoundsAssumption == MaxNow \in Nat /\ MaxFence \in Nat /\ MaxRev \in Nat

VARIABLES
    leases,      \* the lease table
    bound,       \* the binding at each volume's key
    reserved,    \* gc_reserved: ids held for deletion
    sweep,       \* the admin router's sweep: its step and its candidate
    \* History, read by no action:
    grants,      \* every (volume, fence, holder) ever issued
    judged,      \* stamp of the last record that changed a volume's state
    writer,      \* the writer of the last commit admitted per volume
    writing,     \* writers told their flush is open
    exposed      \* of those, the ones a deletion happened under

vars == <<leases, bound, reserved, sweep, grants, judged, writer, writing,
          exposed>>

Writer == [vol : Volume, fence : Nat, holder : Holder]
NoWriter == [vol |-> NoVolume, fence |-> 0, holder |-> NoHolder]

Binding == [kind : {"none", "tombstone", "object", "volume"}, rev : Nat,
            root : Root \cup {NoRoot}, retained : BOOLEAN]

Unbound == [kind |-> "none", rev |-> 0, root |-> NoRoot, retained |-> FALSE]

Sweep == [at : {"idle", "reserved", "proven", "done"},
          body : Body \cup {NoBody}]

TypeOK ==
    /\ leases \in Table
    /\ bound \in [Volume -> Binding]
    /\ reserved \in SUBSET Body
    /\ sweep \in Sweep
    /\ grants \in SUBSET Writer
    /\ judged \in [Volume -> Nat]
    /\ writer \in [Volume -> Writer \cup {NoWriter}]
    /\ writing \in SUBSET Writer
    /\ exposed \in SUBSET Writer

Init ==
    /\ leases = EmptyTable
    /\ bound = [v \in Volume |-> Unbound]
    /\ reserved = {}
    /\ sweep = [at |-> "idle", body |-> NoBody]
    /\ grants = {}
    /\ judged = [v \in Volume |-> 0]
    /\ writer = [v \in Volume |-> NoWriter]
    /\ writing = {}
    /\ exposed = {}

(***************************************************************************)
(* OP_LEASE.                                                               *)
(***************************************************************************)
LeaseRecord(op, v, h, now, ttl) ==
    LET out == LeaseApply(leases, op, v, h, now, ttl)
    IN  /\ out.fence <= MaxFence
        /\ leases' = out.table
        /\ grants' = IF out.status = "Granted"
                     THEN grants \cup {[vol |-> v, fence |-> out.fence, holder |-> h]}
                     ELSE grants
        /\ judged' = [judged EXCEPT ![v] = IF out.table = leases THEN @ ELSE now]
        /\ UNCHANGED <<bound, reserved, sweep, writer, writing, exposed>>

(***************************************************************************)
(* OP_VOLUME.  Every mode first judges the record's stamp (touch) and      *)
(* refuses one with no entry or an old stamp.  A writer names a fence it   *)
(* was granted.  cur_rev is 0 where the key holds no live binding.         *)
(***************************************************************************)
CurRev(v) == IF bound[v].kind \in {"object", "volume"} THEN bound[v].rev ELSE 0

Judge(v, h, f, now) ==
    /\ [vol |-> v, fence |-> f, holder |-> h] \in grants
    /\ now > 0
    /\ Fresh(leases, v, now)
    /\ judged' = [judged EXCEPT ![v] = now]
    /\ UNCHANGED <<reserved, sweep, grants>>

VolumeBegin(v, h, f, now) ==
    LET t == Touch(leases, v, now)
        w == [vol |-> v, fence |-> f, holder |-> h]
        open == Holds(t, v, h, f, now) /\ reserved = {}
    IN  /\ Judge(v, h, f, now)
        /\ leases' = IF open THEN SetFlushing(t, v, h, TRUE) ELSE t
        /\ writing' = IF open THEN writing \cup {w} ELSE writing
        /\ exposed' = IF open THEN exposed \ {w} ELSE exposed
        /\ UNCHANGED <<bound, writer>>

VolumeAbort(v, h, f, now) ==
    LET t == Touch(leases, v, now)
    IN  /\ Judge(v, h, f, now)
        /\ leases' = IF SameGeneration(t, v, h, f)
                     THEN SetFlushing(t, v, h, FALSE) ELSE t
        /\ UNCHANGED <<bound, writer, writing, exposed>>

\* The same commit asked again after it landed.
Landed(v, r, expected) ==
    bound[v].kind = "volume" /\ bound[v].root = r /\ bound[v].rev = expected + 1

\* room: whether the arena found a slot for the root, evicting if need be.
CommitAdmitted(t, v, h, f, now, expected, room) ==
    /\ Holds(t, v, h, f, now)
    /\ CurRev(v) = expected
    /\ IsFlushing(t, v, h)
    /\ ~bound[v].retained
    /\ room

VolumeCommit(v, h, f, now, r, expected, room) ==
    LET t == Touch(leases, v, now)
    IN  /\ Judge(v, h, f, now)
        /\ leases' = IF Landed(v, r, expected) \/ ~SameGeneration(t, v, h, f)
                     THEN t ELSE SetFlushing(t, v, h, FALSE)
        /\ \/ /\ ~Landed(v, r, expected)
              /\ CommitAdmitted(t, v, h, f, now, expected, room)
              /\ bound' = [bound EXCEPT ![v] =
                    [kind |-> "volume", rev |-> expected + 1, root |-> r,
                     retained |-> FALSE]]
              /\ writer' = [writer EXCEPT ![v] =
                    [vol |-> v, fence |-> f, holder |-> h]]
           \/ /\ Landed(v, r, expected)
                   \/ ~CommitAdmitted(t, v, h, f, now, expected, room)
              /\ UNCHANGED <<bound, writer>>
        /\ UNCHANGED <<writing, exposed>>

VolumeDelete(v, h, f, now, expected, room) ==
    LET t == Touch(leases, v, now)
    IN  /\ Judge(v, h, f, now)
        /\ leases' = IF Holds(t, v, h, f, now)
                     THEN SetFlushing(t, v, h, FALSE) ELSE t
        /\ bound' = IF /\ Holds(t, v, h, f, now)
                       /\ bound[v].kind = "volume"
                       /\ bound[v].rev = expected
                       /\ room
                    THEN [bound EXCEPT ![v] =
                            [kind |-> "tombstone", rev |-> expected + 1,
                             root |-> NoRoot, retained |-> FALSE]]
                    ELSE bound
        /\ UNCHANGED <<writer, writing, exposed>>

(***************************************************************************)
(* OP_BIND of a plain object at the key: refused (Fenced) over a volume    *)
(* and (Retained) over a retained object; its revision must exceed the     *)
(* key's, a tombstone's included.                                          *)
(***************************************************************************)
PlainBind(v, retain) ==
    /\ bound[v].kind # "volume"
    /\ ~bound[v].retained
    /\ bound[v].rev < MaxRev
    /\ bound' = [bound EXCEPT ![v] =
            [kind |-> "object", rev |-> bound[v].rev + 1, root |-> NoRoot,
             retained |-> retain]]
    /\ UNCHANGED <<leases, reserved, sweep, grants, judged, writer, writing,
                   exposed>>

(***************************************************************************)
(* The sweep of one unbound body.  OP_GC_RESERVE first ends the flushes    *)
(* whose writers' leases have expired at its stamp; a full table leaves    *)
(* the id unreserved and the sweep skips it.  The reachability answer is   *)
(* "referenced" while any flush is open.  The release may fail to be       *)
(* forwarded, and then the reservation stays.                              *)
(***************************************************************************)
SweepReserve(b, now) ==
    LET room == b \in reserved \/ Cardinality(reserved) < GcSlots
    IN  /\ sweep.at = "idle"
        /\ leases' = EndExpiredFlushes(leases, now)
        /\ reserved' = IF room THEN reserved \cup {b} ELSE reserved
        /\ sweep' = IF room THEN [at |-> "reserved", body |-> b] ELSE sweep
        /\ UNCHANGED <<bound, grants, judged, writer, writing, exposed>>

SweepCheck ==
    /\ sweep.at = "reserved"
    /\ sweep' = [sweep EXCEPT !.at = IF AnyFlushing(leases) THEN "done" ELSE "proven"]
    /\ UNCHANGED <<leases, bound, reserved, grants, judged, writer, writing, exposed>>

SweepDelete ==
    /\ sweep.at = "proven"
    /\ sweep' = [sweep EXCEPT !.at = "done"]
    /\ exposed' = exposed \cup writing
    /\ UNCHANGED <<leases, bound, reserved, grants, judged, writer, writing>>

SweepRelease(forwarded) ==
    /\ sweep.at = "done"
    /\ reserved' = IF forwarded THEN reserved \ {sweep.body} ELSE reserved
    /\ sweep' = [at |-> "idle", body |-> NoBody]
    /\ UNCHANGED <<leases, bound, grants, judged, writer, writing, exposed>>

Next ==
    \/ \E v \in Volume, h \in Holder, now \in 0..MaxNow :
         \/ \E op \in LeaseOps, ttl \in 0..(TtlMax + 1) :
               LeaseRecord(op, v, h, now, ttl)
         \/ \E f \in 1..MaxFence :
              \/ VolumeBegin(v, h, f, now)
              \/ VolumeAbort(v, h, f, now)
              \/ \E expected \in 0..(MaxRev - 1), room \in BOOLEAN :
                   \/ VolumeDelete(v, h, f, now, expected, room)
                   \/ \E r \in Root : VolumeCommit(v, h, f, now, r, expected, room)
    \/ \E v \in Volume, retain \in BOOLEAN : PlainBind(v, retain)
    \/ \E b \in Body, now \in 0..MaxNow : SweepReserve(b, now)
    \/ SweepCheck
    \/ SweepDelete
    \/ \E forwarded \in BOOLEAN : SweepRelease(forwarded)

Spec == Init /\ [][Next]_vars

-------------------------------------------------------------------------------
(***************************************************************************)
(* Properties.                                                             *)
(***************************************************************************)

\* No fence of a volume is ever issued to two holders, though an entry may
\* be recycled and the volume return later (claim_slot, apply_absent).
FenceUnique ==
    \A a, b \in grants :
        a.vol = b.vol /\ a.fence = b.fence => a.holder = b.holder

\* A commit is admitted only under the highest fence issued for its volume:
\* a writer that has been replaced cannot move the root, however late or
\* often its commit is delivered (judge_volume_at, VOLUME_COMMIT).
CommitFenced ==
    [][\A v \in Volume :
          (bound'[v] # bound[v] /\ bound'[v].kind = "volume") =>
              \A g \in grants : g.vol = v => g.fence <= writer'[v].fence]_vars

\* No body was deleted while the flush of an admitted commit was open: the
\* open flush kept the sweep from it, whatever the clocks said and whoever
\* held the lease between (handle_referenced, VOLUME_BEGIN, GC_RESERVE).
FlushGuarded ==
    [][\A v \in Volume :
          (bound'[v] # bound[v] /\ bound'[v].kind = "volume") =>
              writer'[v] \notin exposed]_vars

\* A volume's lease and root change only by records stamped later than
\* every record that changed them before, so a redelivered record changes
\* nothing, across a recycling of its entry too (touch, stamp_floor).
StampOrder ==
    [][\A v \in Volume :
          \/ judged'[v] > judged[v]
          \/ /\ bound'[v] = bound[v] \/ bound'[v].kind = "object"
             /\ Known(leases', v) =>
                   /\ Known(leases, v)
                   /\ Lease(leases', v).stamp = Lease(leases, v).stamp]_vars

\* Replaying the records a rotated log opens with rebuilds the lease table
\* exactly: fences, stamps, floors, open flushes and slot order
\* (seed_lease, restore).
RotationExact == Reseeded(leases) = leases
===============================================================================
