-------------------------------- MODULE WalIo --------------------------------
(***************************************************************************)
(* One write-ahead log and the four step machines that serve it, from      *)
(* wal_io.rs: WalOpener and WalReplay (boot), WalAppender (one record at a *)
(* time, acknowledged only once fenced) and WalRotator (replacing the log  *)
(* by a fresh one that holds the caller's seed records).                   *)
(*                                                                         *)
(* A record is a number, given out in the order the caller logs them.  A   *)
(* frame on the device is whole or torn: a torn one fails its length or    *)
(* its checksum, and replay stops at it.  What is written and not fenced   *)
(* may survive a crash or not.  The caller applies a record when it is     *)
(* durable, and its memory is what a rotation seeds the new log with.      *)
(*                                                                         *)
(* A poll the device answers EAGAIN or EINPROGRESS changes nothing and is  *)
(* a stuttering step; an operation that fails before any byte moved is     *)
(* one too, once its record has been refused.                              *)
(***************************************************************************)
EXTENDS Naturals, Sequences, SequencesExt

CONSTANTS
    MaxRec,      \* bound on the records logged
    TornTails    \* whether a frame half written may survive a crash

ASSUME MaxRecAssumption == MaxRec \in Nat
ASSUME TornTailsAssumption == TornTails \in BOOLEAN

VARIABLES
    file,        \* the frames of the log
    synced,      \* how many of them a fence covers
    append,      \* the appender's phase
    broken,      \* the appender's latch
    mode,        \* the caller: booting, serving, or without a log
    mem,         \* the records the caller has applied, in order
    rot,         \* the rotator's phase
    stage,       \* the records of the staging log; none if it does not exist
    seeded,      \* seed records written to it
    next,        \* the next record to be logged
    \* History, read by no action:
    acked,       \* records acknowledged durable
    behind,      \* those of them fenced behind a half frame, and not seeded since
    refused      \* records refused and not replayed since

vars == <<file, synced, append, broken, mode, mem, rot, stage, seeded, next,
          acked, behind, refused>>

Rec == 1..MaxRec
Frame == [rec : Rec, whole : BOOLEAN]

AppendPhase == {"idle", "write", "fence"}
RotPhase == {"idle", "clear", "create", "seed", "rename", "reopen", "discard"}

TypeOK ==
    /\ file \in Seq(Frame)
    /\ synced \in 0..Len(file)
    /\ append \in AppendPhase
    /\ broken \in BOOLEAN
    /\ mode \in {"open", "ready", "lost"}
    /\ mem \in Seq(Rec)
    /\ rot \in RotPhase
    /\ stage \in Seq(Rec)
    /\ seeded \in 0..Len(mem)
    /\ next \in 1..(MaxRec + 1)
    /\ acked \subseteq Rec
    /\ behind \subseteq Rec
    /\ refused \subseteq Rec

Init ==
    /\ file = <<>>
    /\ synced = 0
    /\ append = "idle"
    /\ broken = FALSE
    /\ mode = "open"
    /\ mem = <<>>
    /\ rot = "idle"
    /\ stage = <<>>
    /\ seeded = 0
    /\ next = 1
    /\ acked = {}
    /\ behind = {}
    /\ refused = {}

(***************************************************************************)
(* Boot: open or create the log, replay it up to its end or its first torn *)
(* frame, and re-arm the appender.                                         *)
(***************************************************************************)
Torn(f) == {i \in 1..Len(f) : ~f[i].whole}

Replayable(f) ==
    LET upto == IF Torn(f) = {} THEN Len(f)
                ELSE (CHOOSE i \in Torn(f) : \A j \in Torn(f) : i <= j) - 1
    IN  [i \in 1..upto |-> f[i].rec]

OpenReplay ==
    /\ mode = "open"
    /\ mode' = "ready"
    /\ mem' = Replayable(file)
    /\ broken' = FALSE
    /\ refused' = refused \ ToSet(Replayable(file))
    /\ UNCHANGED <<file, synced, append, rot, stage, seeded, next, acked, behind>>

(***************************************************************************)
(* The appender.  A record is staged only on an idle, unbroken appender,   *)
(* and none while a rotation is in flight (step_body holds intake).        *)
(***************************************************************************)
Begin ==
    /\ mode = "ready"
    /\ rot = "idle"
    /\ append = "idle"
    /\ ~broken
    /\ next <= MaxRec
    /\ append' = "write"
    /\ next' = next + 1
    /\ UNCHANGED <<file, synced, broken, mode, mem, rot, stage, seeded, acked,
                   refused, behind>>

Staged == next - 1

\* Bytes of the staged frame have reached the file.
Partial == Len(file) > 0 /\ Last(file).rec = Staged /\ ~Last(file).whole

\* A short count: the rest is offered from where it stopped.
WriteShort ==
    /\ append = "write"
    /\ ~Partial
    /\ file' = Append(file, [rec |-> Staged, whole |-> FALSE])
    /\ UNCHANGED <<synced, append, broken, mode, mem, rot, stage, seeded, next,
                   acked, refused, behind>>

WriteAll ==
    /\ append = "write"
    /\ append' = "fence"
    /\ file' = Append(IF Partial THEN Front(file) ELSE file,
                      [rec |-> Staged, whole |-> TRUE])
    /\ UNCHANGED <<synced, broken, mode, mem, rot, stage, seeded, next, acked,
                   refused, behind>>

\* Mutant: the appender stays usable after a failure.
FailUnlatched(dirty) ==
    /\ append' = "idle"
    /\ broken' = broken
    /\ refused' = refused \cup {Staged}
    /\ UNCHANGED <<file, synced, mode, mem, rot, stage, seeded, next, acked, behind>>

\* fail: with bytes in the file the tail is a partial record, or a whole one
\* whose fence failed, and the appender refuses everything from here on.
Fail(dirty) ==
    /\ append' = "idle"
    /\ broken' = dirty
    /\ refused' = refused \cup {Staged}
    /\ UNCHANGED <<file, synced, mode, mem, rot, stage, seeded, next, acked, behind>>

WriteFail == append = "write" /\ Fail(Partial)

FenceFail == append = "fence" /\ Fail(TRUE)

\* Durable: the caller applies the record and acknowledges it.
Fence ==
    /\ append = "fence"
    /\ append' = "idle"
    /\ synced' = Len(file)
    /\ mem' = Append(mem, Staged)
    /\ acked' = acked \cup {Staged}
    /\ behind' = IF Torn(file) = {} THEN behind ELSE behind \cup {Staged}
    /\ UNCHANGED <<file, broken, mode, rot, stage, seeded, next, refused>>

(***************************************************************************)
(* The rotator.  The staging log is cleared, created, seeded and fenced,   *)
(* then renamed over the live one.  A stage that fails discards the        *)
(* staging log and leaves the live one (Skipped); a log that was replaced  *)
(* and cannot be reopened is Lost.                                         *)
(***************************************************************************)
RotBegin ==
    /\ mode = "ready"
    /\ rot = "idle"
    /\ append = "idle"
    /\ rot' = "clear"
    /\ UNCHANGED <<file, synced, append, broken, mode, mem, stage, seeded, next,
                   acked, refused, behind>>

\* Mutant: staging left by a crashed rotation is kept.
ClearNothing(ok) ==
    /\ rot = "clear"
    /\ rot' = IF ok THEN "create" ELSE "idle"
    /\ UNCHANGED <<file, synced, append, broken, mode, mem, stage, seeded, next,
                   acked, refused, behind>>

RotClear(ok) ==
    /\ rot = "clear"
    /\ rot' = IF ok THEN "create" ELSE "idle"
    /\ stage' = IF ok THEN <<>> ELSE stage
    /\ UNCHANGED <<file, synced, append, broken, mode, mem, seeded, next, acked,
                   refused, behind>>

\* OPEN_CREATE does not truncate: what is there stays.
RotCreate(ok) ==
    /\ rot = "create"
    /\ rot' = IF ok THEN "seed" ELSE "idle"
    /\ seeded' = 0
    /\ UNCHANGED <<file, synced, append, broken, mode, mem, stage, next, acked,
                   refused, behind>>

RotSeed(ok) ==
    /\ rot = "seed"
    /\ seeded < Len(mem)
    /\ IF ok THEN /\ stage' = Append(stage, mem[seeded + 1])
                  /\ seeded' = seeded + 1
                  /\ rot' = rot
             ELSE /\ rot' = "discard"
                  /\ UNCHANGED <<stage, seeded>>
    /\ UNCHANGED <<file, synced, append, broken, mode, mem, next, acked, refused, behind>>

\* Mutant: the rename does not wait for the seeds.
FenceEarly(ok) ==
    /\ rot = "seed"
    /\ rot' = IF ok THEN "rename" ELSE "discard"
    /\ UNCHANGED <<file, synced, append, broken, mode, mem, stage, seeded, next,
                   acked, refused, behind>>

RotFence(ok) ==
    /\ rot = "seed"
    /\ seeded = Len(mem)
    /\ rot' = IF ok THEN "rename" ELSE "discard"
    /\ UNCHANGED <<file, synced, append, broken, mode, mem, stage, seeded, next,
                   acked, refused, behind>>

RotRename(ok) ==
    /\ rot = "rename"
    /\ IF ok THEN /\ file' = [i \in 1..Len(stage) |-> [rec |-> stage[i], whole |-> TRUE]]
                  /\ synced' = Len(stage)
                  /\ stage' = <<>>
                  /\ behind' = behind \ ToSet(stage)
                  /\ rot' = "reopen"
             ELSE /\ rot' = "discard"
                  /\ UNCHANGED <<file, synced, stage, behind>>
    /\ UNCHANGED <<append, broken, mode, mem, seeded, next, acked, refused>>

\* Rotated: the caller takes the new descriptor and resets the appender.
RotReopen(ok) ==
    /\ rot = "reopen"
    /\ rot' = "idle"
    /\ IF ok THEN broken' = FALSE /\ mode' = mode
             ELSE broken' = broken /\ mode' = "lost"
    /\ UNCHANGED <<file, synced, append, mem, stage, seeded, next, acked, refused, behind>>

\* Mutant: a discarded rotation starts over.
DiscardRestart(ok) ==
    /\ rot = "discard"
    /\ rot' = "clear"
    /\ stage' = IF ok THEN <<>> ELSE stage
    /\ UNCHANGED <<file, synced, append, broken, mode, mem, seeded, next, acked,
                   refused, behind>>

RotDiscard(ok) ==
    /\ rot = "discard"
    /\ rot' = "idle"
    /\ stage' = IF ok THEN <<>> ELSE stage
    /\ UNCHANGED <<file, synced, append, broken, mode, mem, seeded, next, acked,
                   refused, behind>>

(***************************************************************************)
(* A crash, at any point.  The fenced frames survive; of the frame written *)
(* after them, nothing, or all that was written, or part of it.            *)
(***************************************************************************)
Survivors ==
    LET kept == SubSeq(file, 1, synced)
        tail == SubSeq(file, synced + 1, Len(file))
    IN  {kept}
          \cup {kept \o SubSeq(tail, 1, n) :
                  n \in {m \in 1..Len(tail) : \A i \in 1..m : tail[i].whole}}
          \cup IF TornTails /\ tail # <<>>
               THEN {Append(kept, [tail[1] EXCEPT !.whole = FALSE])}
               ELSE {}

Crash ==
    /\ mode # "open"
    /\ file' \in Survivors
    /\ synced' = Len(file')
    /\ append' = "idle"
    /\ broken' = FALSE
    /\ mode' = "open"
    /\ mem' = <<>>
    /\ rot' = "idle"
    /\ seeded' = 0
    /\ refused' = IF append # "idle" THEN refused \cup {Staged} ELSE refused
    /\ UNCHANGED <<stage, next, acked, behind>>

AppendPoll == WriteShort \/ WriteAll \/ WriteFail \/ FenceFail \/ Fence

RotPoll ==
    \E ok \in BOOLEAN :
        \/ RotClear(ok) \/ RotCreate(ok) \/ RotSeed(ok) \/ RotFence(ok)
        \/ RotRename(ok) \/ RotReopen(ok) \/ RotDiscard(ok)

Next == OpenReplay \/ Begin \/ AppendPoll \/ RotBegin \/ RotPoll \/ Crash

\* The kernel steps a module again and again and the fs provider decides
\* every request in time, so a poll is not put off for ever.
Fairness == WF_vars(OpenReplay) /\ WF_vars(AppendPoll) /\ WF_vars(RotPoll)

Spec == Init /\ [][Next]_vars /\ Fairness

-------------------------------------------------------------------------------
(***************************************************************************)
(* Properties.                                                             *)
(***************************************************************************)

\* Every record acknowledged durable is one a replay of the log would hand
\* back, at every moment: across failed appends, rotations that are skipped,
\* lost or cut short, and crashes at any point (WalAppender, WalRotator).  Only
\* what was acknowledged over a log that a crash left half a frame in is lost,
\* until a rotation seeds it anew.
AckedReplayable == acked \subseteq ToSet(Replayable(file)) \cup behind

\* A serving log replays to what its caller has applied, in order, up to the
\* half frame if it has one and to all of it if not: nothing refused has slipped
\* in, nothing is left of an earlier rotation (rotate_seeded's clear, fail's
\* latch).
ReplayExact ==
    mode = "ready" /\ append = "idle" /\ rot = "idle" /\ ~broken =>
        /\ Len(Replayable(file)) <= Len(mem)
        /\ \A i \in 1..Len(mem) : IF i <= Len(Replayable(file))
                                 THEN Replayable(file)[i] = mem[i] ELSE mem[i] \in behind
        /\ Torn(file) = {} => Replayable(file) = mem

\* A record that was refused is never made durable by a later fence, so that a
\* replay would hand it back: the latch stops every append after it
\* (WalAppender::fail).
RefusedUnfenced ==
    mode = "ready" => \A r \in ToSet(Replayable(SubSeq(file, 1, synced))) : r \notin refused

\* What durability asks of the log, and half a frame left by a crash denies: the
\* appender writes behind it, and the next replay stops before it.
NoneBehind == acked \subseteq ToSet(Replayable(file))

\* What owns the caller's step gives it back: a staged append is decided, and
\* a rotation ends, and with it the hold on the caller's intake
\* (WalAppender::poll, WalRotator::poll).
StepsReturn ==
    /\ (append # "idle") ~> (append = "idle")
    /\ (rot # "idle") ~> (rot = "idle")
===============================================================================
