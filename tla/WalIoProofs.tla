----------------------------- MODULE WalIoProofs -----------------------------
(***************************************************************************)
(* Proofs about the write-ahead log, whatever a crash leaves of the frame  *)
(* it interrupts: what is acknowledged is replayed, but for what was       *)
(* acknowledged behind a half frame, a serving log replays to what its     *)
(* caller applied, and no later fence makes a refused record durable.  On  *)
(* a device that leaves no half frame (~TornTails) nothing is excepted.    *)
(***************************************************************************)
EXTENDS WalIo, TLAPS, SequenceTheorems

\* At most one frame follows the fenced ones.
OneTail == Len(file) <= synced + 1

\* Who owns the caller's step: an append runs on a serving, unbroken log with
\* no rotation in flight, a rotation on a serving log with no append.
OneOwner ==
    /\ append # "idle" => mode = "ready" /\ rot = "idle" /\ ~broken
    /\ rot # "idle" => mode = "ready"
    /\ broken => mode # "open"

\* What the unfenced frame can be: the staged record's while an append is
\* under way, anything behind the latch, and nothing otherwise.
TailKnown ==
    /\ append = "idle" /\ (~broken \/ rot = "reopen" \/ mode = "open") => Len(file) = synced
    /\ append = "write" /\ Len(file) # synced =>
           file[Len(file)] = [rec |-> Staged, whole |-> FALSE]
    /\ append = "fence" =>
           Len(file) # synced /\ file[Len(file)] = [rec |-> Staged, whole |-> TRUE]

\* The fenced frames up to the first half one, n of them, are what counts: the
\* records the caller has applied start with theirs, and all it applied or
\* acknowledged besides is behind.
Reach(n) ==
    /\ \A i \in 1..n : file[i].whole
    /\ n < synced => ~file[n + 1].whole
    /\ \A r \in acked \ behind : \E i \in 1..n : file[i].rec = r

Applied(n) ==
    mode = "ready" => /\ n <= Len(mem) /\ (n = synced => Len(mem) = n)
                      /\ \A i \in 1..n : file[i].rec = mem[i]
                      /\ \A i \in (n + 1)..Len(mem) : mem[i] \in behind

\* Records are numbered in the order they are logged: everything on the log,
\* applied or refused is older than the next one, and than the one staged now.
Numbered ==
    /\ \A i \in 1..Len(file) : file[i].rec < next
    /\ \A i \in 1..Len(mem) : mem[i] < next
    /\ \A r \in refused : r < next
    /\ append # "idle" => /\ next > 1
                          /\ \A i \in 1..synced : file[i].rec < Staged
                          /\ \A i \in 1..Len(mem) : mem[i] < Staged
                          /\ \A r \in refused : r < Staged

\* No refused record has been applied.
NoneRefused == mode = "ready" => \A i \in 1..Len(mem) : mem[i] \notin refused

\* The staging log holds the seeds written so far, and all of them before it
\* is renamed.
StageSeeded ==
    /\ mode = "open" => seeded = 0 /\ mem = <<>>
    /\ rot = "create" => stage = <<>>
    /\ rot \in {"seed", "rename"} => /\ Len(stage) = seeded
                                     /\ \A i \in 1..seeded : stage[i] = mem[i]
    /\ rot = "rename" => seeded = Len(mem)

\* A device that tears no frame leaves none behind, and no record.
Untorn == ~TornTails => behind = {} /\ \A i \in 1..synced : file[i].whole

\* The inductive invariant.
IInv ==
    /\ TypeOK
    /\ OneTail
    /\ OneOwner
    /\ TailKnown
    /\ \E n \in 0..synced : Reach(n) /\ Applied(n)
    /\ Numbered
    /\ NoneRefused
    /\ StageSeeded
    /\ Untorn

-------------------------------------------------------------------------------
(***************************************************************************)
(* Replay.                                                                 *)
(***************************************************************************)

\* A log replays to its whole frames before the first half one.
LEMMA ReplayPrefix ==
    ASSUME NEW f \in Seq(Frame), NEW n \in 0..Len(f),
           \A i \in 1..n : f[i].whole, n < Len(f) => ~f[n + 1].whole
    PROVE  Replayable(f) = [i \in 1..n |-> f[i].rec]
<1>1. Len(f) \in Nat
  BY LenProperties
<1>2. CASE n = Len(f)
  <2>1. Torn(f) = {}
    BY <1>1, <1>2 DEF Torn
  <2>2. QED
    BY <1>2, <2>1 DEF Replayable
<1>3. CASE n < Len(f)
  <2>1. n + 1 \in Torn(f) /\ \A j \in Torn(f) : j \in Nat /\ n + 1 <= j
    BY <1>1, <1>3 DEF Torn
  <2>2. (CHOOSE i \in Torn(f) : \A j \in Torn(f) : i <= j) = n + 1
    <3>1. \A i \in Torn(f) : (\A j \in Torn(f) : i <= j) => i = n + 1
      BY <1>1, <2>1
    <3>2. QED
      BY <2>1, <3>1
  <2>3. (n + 1) - 1 = n /\ Torn(f) # {}
    BY <1>1, <2>1
  <2>4. QED
    BY <2>2, <2>3 DEF Replayable
<1>4. QED
  BY <1>1, <1>2, <1>3

\* A replay hands back a sequence of records.
LEMMA ReplaySeq ==
    ASSUME NEW f \in Seq(Frame), NEW m \in 0..Len(f)
    PROVE  /\ [i \in 1..m |-> f[i].rec] \in Seq(Rec)
           /\ Len([i \in 1..m |-> f[i].rec]) = m
           /\ ToSet([i \in 1..m |-> f[i].rec]) = {f[i].rec : i \in 1..m}
<1>1. Len(f) \in Nat /\ \A i \in 1..m : f[i] \in Frame
  BY LenProperties
<1>2. [i \in 1..m |-> f[i].rec] \in [1..m -> Rec]
  BY <1>1 DEF Frame
<1>3. [i \in 1..m |-> f[i].rec] \in Seq(Rec) /\ Len([i \in 1..m |-> f[i].rec]) = m
  BY <1>1, <1>2, SeqDef
<1>4. QED
  BY <1>3 DEF ToSet

-------------------------------------------------------------------------------
(***************************************************************************)
(* Each step keeps the invariant.                                          *)
(***************************************************************************)

\* The empty log the first boot finds satisfies the invariant.
LEMMA InitIInv == Init => IInv
<1> SUFFICES ASSUME Init PROVE IInv
  OBVIOUS
<1>1. /\ <<>> \in Seq(Frame) /\ <<>> \in Seq(Rec) /\ Len(<<>>) = 0
  BY EmptySeq
<1>2. TypeOK
  <2>1. broken \in BOOLEAN
    BY DEF Init
  <2>2. QED
    BY <1>1, <2>1, MaxRecAssumption DEF Init, TypeOK, AppendPhase, RotPhase
<1>3. OneTail /\ OneOwner /\ TailKnown /\ Numbered /\ NoneRefused /\ StageSeeded /\ Untorn
  BY <1>1 DEF Init, OneTail, OneOwner, TailKnown, Numbered, NoneRefused, StageSeeded, Untorn
<1>4. 0 \in 0..synced /\ Reach(0) /\ Applied(0)
  BY DEF Init, Reach, Applied
<1>5. QED
  BY <1>2, <1>3, <1>4 DEF IInv

\* A boot replays a log with no unfenced frame up to its first half frame.
LEMMA OpenReplayIInv == IInv /\ OpenReplay => IInv'
<1> SUFFICES ASSUME IInv, OpenReplay
             PROVE  IInv'
  OBVIOUS
<1>0. PICK n \in 0..synced : Reach(n) /\ Applied(n)
  BY DEF IInv
<1> USE DEF IInv
<1>1. file \in Seq(Frame) /\ Len(file) \in Nat /\ Len(file) = synced /\ append = "idle"
  BY LenProperties DEF TypeOK, TailKnown, OneOwner, OpenReplay, AppendPhase
<1>2. mem' = [i \in 1..n |-> file[i].rec]
  <2>1. Replayable(file) = [i \in 1..n |-> file[i].rec]
    BY <1>0, <1>1, ReplayPrefix DEF Reach
  <2>2. QED
    BY <2>1 DEF OpenReplay
<1>3. mem' \in Seq(Rec) /\ Len(mem') = n
  BY <1>1, <1>2, ReplaySeq
<1>4. refused' = refused \ {file[i].rec : i \in 1..n}
  <2>1. Replayable(file) = mem'
    BY DEF OpenReplay
  <2>2. QED
    BY <1>1, <1>2, <2>1, ReplaySeq DEF OpenReplay
<1>5. rot = "idle" /\ mode' = "ready" /\ broken' = FALSE
  BY DEF OneOwner, OpenReplay
<1>6. UNCHANGED <<file, synced, append, rot, stage, seeded, next, acked, behind>>
  BY DEF OpenReplay
<1>7. TypeOK'
  <2>1. seeded' \in 0..Len(mem')
    BY <1>1, <1>3, <1>6 DEF TypeOK, StageSeeded, OpenReplay
  <2>2. refused' \subseteq Rec
    BY <1>4 DEF TypeOK
  <2>3. broken' \in BOOLEAN
    BY <1>5
  <2>4. QED
    BY <1>3, <1>5, <1>6, <2>1, <2>2, <2>3 DEF TypeOK
<1>8. OneTail' /\ OneOwner' /\ TailKnown' /\ Untorn'
  BY <1>1, <1>5, <1>6 DEF OneTail, OneOwner, TailKnown, Untorn
<1>9. n \in 0..synced' /\ Reach(n)' /\ Applied(n)'
  BY <1>0, <1>1, <1>2, <1>3, <1>6 DEF Reach, Applied
<1>10. Numbered' /\ NoneRefused' /\ StageSeeded'
  BY <1>1, <1>2, <1>3, <1>4, <1>5, <1>6 DEF Numbered, NoneRefused, StageSeeded
<1>11. QED
  BY <1>7, <1>8, <1>9, <1>10

\* A record is staged on a log with no unfenced frame, under a fresh number.
LEMMA BeginIInv == IInv /\ Begin => IInv'
<1> SUFFICES ASSUME IInv, Begin
             PROVE  IInv'
  OBVIOUS
<1> USE DEF IInv, Begin
<1>1. Len(file) = synced /\ Len(file) \in Nat /\ next \in Nat
  BY LenProperties, MaxRecAssumption DEF TypeOK, TailKnown
<1>2. TypeOK'
  BY MaxRecAssumption DEF TypeOK, AppendPhase
<1>3. OneTail' /\ OneOwner' /\ TailKnown' /\ Untorn'
  BY <1>1 DEF OneTail, OneOwner, TailKnown, Untorn
<1>4. (\E n \in 0..synced : Reach(n) /\ Applied(n))' /\ NoneRefused' /\ StageSeeded'
  BY DEF Reach, Applied, NoneRefused, StageSeeded
<1>5. Numbered'
  <2>1. Staged' = next /\ next' = next + 1
    BY <1>1 DEF Staged
  <2>2. \A i \in 1..Len(file) : file[i].rec \in Nat
    <3>1. \A i \in 1..Len(file) : file[i] \in Frame
      BY ElementOfSeq DEF TypeOK
    <3>2. QED
      BY <3>1 DEF Frame, Rec
  <2>3. \A r \in refused : r \in Nat
    BY DEF TypeOK, Rec
  <2>4. \A i \in 1..Len(mem) : mem[i] \in Nat
    <3>1. \A i \in 1..Len(mem) : mem[i] \in Rec
      BY ElementOfSeq DEF TypeOK
    <3>2. QED
      BY <3>1 DEF Rec
  <2>5. \A i \in 1..Len(file) : file[i].rec < next /\ file[i].rec < next + 1
    BY <1>1, <2>2 DEF Numbered
  <2>6. \A r \in refused : r < next /\ r < next + 1
    BY <1>1, <2>3 DEF Numbered
  <2>7. \A i \in 1..Len(mem) : mem[i] < next /\ mem[i] < next + 1
    BY <1>1, <2>4 DEF Numbered
  <2>8. next >= 1 /\ UNCHANGED <<file, synced, mem, refused>>
    BY DEF TypeOK
  <2>9. QED
    BY <1>1, <2>1, <2>5, <2>6, <2>7, <2>8 DEF Numbered
<1>6. QED
  BY <1>2, <1>3, <1>4, <1>5

\* What the fence covers is left as it is: what counts is what counted before.
LEMMA SameFenced ==
    ASSUME NEW n \in 0..synced, synced \in Nat, Reach(n), Applied(n),
           \A i \in 1..synced : file'[i] = file[i],
           UNCHANGED <<synced, mode, mem, acked, behind>>
    PROVE  n \in 0..synced' /\ Reach(n)' /\ Applied(n)'
<1>1. \A i \in 1..n : file'[i] = file[i]
  OBVIOUS
<1>2. \A i \in 1..n : file'[i].whole
  BY <1>1 DEF Reach
<1>3. n < synced' => ~file'[n + 1].whole
  <2>1. SUFFICES ASSUME n < synced PROVE ~file'[n + 1].whole
    OBVIOUS
  <2>2. n + 1 \in 1..synced
    BY <2>1
  <2>3. file'[n + 1] = file[n + 1]
    BY <2>2
  <2>4. QED
    BY <2>1, <2>3 DEF Reach
<1>4. \A r \in acked' \ behind' : \E i \in 1..n : file'[i].rec = r
  BY <1>1 DEF Reach
<1>5. Reach(n)'
  BY <1>2, <1>3, <1>4 DEF Reach
<1>6. Applied(n)'
  BY <1>1 DEF Applied
<1>7. QED
  BY <1>5, <1>6

\* A short count leaves one torn frame, the staged record's.
LEMMA WriteShortIInv == IInv /\ WriteShort => IInv'
<1> SUFFICES ASSUME IInv, WriteShort
             PROVE  IInv'
  OBVIOUS
<1>0. PICK n \in 0..synced : Reach(n) /\ Applied(n)
  BY DEF IInv
<1> DEFINE fr == [rec |-> Staged, whole |-> FALSE]
<1> USE DEF IInv
<1>1. file \in Seq(Frame) /\ Len(file) \in Nat /\ synced \in 0..Len(file)
  BY LenProperties DEF TypeOK
<1>2. Len(file) = synced
  BY <1>1 DEF Partial, TailKnown, Last, WriteShort
<1>3. Staged \in Rec /\ Staged = next - 1 /\ next \in Nat
  BY MaxRecAssumption DEF Numbered, TypeOK, Staged, Rec, WriteShort
<1>4. /\ file' \in Seq(Frame)
      /\ Len(file') = synced + 1
      /\ \A i \in 1..synced : file'[i] = file[i]
      /\ file'[synced + 1] = fr
  <2>1. fr \in Frame
    BY <1>3 DEF Frame
  <2>2. QED
    BY <1>1, <1>2, <2>1, AppendProperties DEF WriteShort
<1> HIDE DEF fr
<1>5. /\ Staged' = Staged /\ append = "write"
      /\ UNCHANGED <<synced, append, broken, mode, mem, rot, stage, seeded, next, acked,
                     refused, behind>>
  BY DEF Staged, WriteShort
<1>6. TypeOK'
  BY <1>1, <1>4, <1>5 DEF TypeOK
<1>7. OneTail' /\ OneOwner' /\ Untorn'
  BY <1>1, <1>4, <1>5 DEF OneTail, OneOwner, Untorn
<1>8. TailKnown'
  BY <1>1, <1>4, <1>5 DEF TailKnown, fr
<1>9. n \in 0..synced' /\ Reach(n)' /\ Applied(n)' /\ NoneRefused' /\ StageSeeded'
  <2>1. n \in 0..synced' /\ Reach(n)' /\ Applied(n)'
    BY <1>0, <1>1, <1>4, <1>5, SameFenced
  <2>2. NoneRefused' /\ StageSeeded'
    BY <1>5 DEF NoneRefused, StageSeeded
  <2>3. QED
    BY <2>1, <2>2
<1>10. Numbered'
  <2>1. \A i \in 1..Len(file') : file'[i].rec < next'
    BY <1>1, <1>2, <1>3, <1>4, <1>5 DEF Numbered, fr
  <2>2. QED
    BY <1>1, <1>2, <1>4, <1>5, <2>1 DEF Numbered
<1>11. QED
  BY <1>6, <1>7, <1>8, <1>9, <1>10

\* The rest of the frame makes it whole; nothing is covered by the fence yet.
LEMMA WriteAllIInv == IInv /\ WriteAll => IInv'
<1> SUFFICES ASSUME IInv, WriteAll
             PROVE  IInv'
  OBVIOUS
<1>0. PICK n \in 0..synced : Reach(n) /\ Applied(n)
  BY DEF IInv
<1> DEFINE fr == [rec |-> Staged, whole |-> TRUE]
           base == IF Partial THEN Front(file) ELSE file
<1> USE DEF IInv
<1>1. file \in Seq(Frame) /\ Len(file) \in Nat /\ synced \in 0..Len(file)
  BY LenProperties DEF TypeOK
<1>2. Staged \in Rec /\ Staged = next - 1 /\ next \in Nat /\ append = "write"
  BY MaxRecAssumption DEF Numbered, TypeOK, Staged, Rec, WriteAll
<1>3. base = IF Partial THEN Front(file) ELSE file
  OBVIOUS
<1>4. file' = Append(base, fr)
  BY DEF WriteAll
<1> HIDE DEF base, fr
<1>5. /\ base \in Seq(Frame)
      /\ Len(base) = synced
      /\ \A i \in 1..synced : base[i] = file[i]
  <2>1. CASE Partial
    <3>1. Len(file) = synced + 1
      <4>1. Len(file) # synced
        BY <1>1, <1>2, <2>1 DEF Partial, Last, Numbered
      <4>2. QED
        BY <1>1, <4>1 DEF OneTail
    <3>2. base = SubSeq(file, 1, synced)
      BY <1>3, <1>1, <2>1, <3>1 DEF Front
    <3>3. \A i \in 1..synced : file[i] \in Frame
      BY <1>1, ElementOfSeq
    <3>4. QED
      BY <1>1, <3>2, <3>3, SubSeqProperties
  <2>2. CASE ~Partial
    <3>1. Len(file) = synced
      BY <1>1, <1>2, <2>2 DEF Partial, TailKnown, Last
    <3>2. base = file
      BY <1>3, <2>2
    <3>3. QED
      BY <1>1, <3>1, <3>2
  <2>3. QED
    BY <2>1, <2>2
<1>6. /\ file' \in Seq(Frame)
      /\ Len(file') = synced + 1
      /\ \A i \in 1..synced : file'[i] = file[i]
      /\ file'[synced + 1] = fr
  <2>1. fr \in Frame
    BY <1>2 DEF Frame, fr
  <2>2. QED
    BY <1>1, <1>5, <1>4, <2>1, AppendProperties
<1>7. /\ Staged' = Staged /\ append' = "fence"
      /\ UNCHANGED <<synced, broken, mode, mem, rot, stage, seeded, next, acked, refused, behind>>
  BY DEF Staged, WriteAll
<1>8. TypeOK'
  BY <1>1, <1>6, <1>7 DEF TypeOK, AppendPhase
<1>9. OneTail' /\ OneOwner' /\ Untorn'
  BY <1>1, <1>2, <1>6, <1>7 DEF OneTail, OneOwner, Untorn
<1>10. TailKnown'
  BY <1>1, <1>6, <1>7 DEF TailKnown, fr
<1>11. n \in 0..synced' /\ Reach(n)' /\ Applied(n)' /\ NoneRefused' /\ StageSeeded'
  <2>1. n \in 0..synced' /\ Reach(n)' /\ Applied(n)'
    BY <1>0, <1>1, <1>6, <1>7, SameFenced
  <2>2. NoneRefused' /\ StageSeeded'
    BY <1>7 DEF NoneRefused, StageSeeded
  <2>3. QED
    BY <2>1, <2>2
<1>12. Numbered'
  <2>1. \A i \in 1..Len(file') : file'[i].rec < next'
    BY <1>1, <1>2, <1>6, <1>7 DEF Numbered, fr
  <2>2. QED
    BY <1>1, <1>2, <1>6, <1>7, <2>1 DEF Numbered
<1>13. QED
  BY <1>8, <1>9, <1>10, <1>11, <1>12

\* A refused append leaves the latch set whenever it left bytes behind.
LEMMA FailIInv == IInv /\ (WriteFail \/ FenceFail) => IInv'
<1> SUFFICES ASSUME IInv, WriteFail \/ FenceFail
             PROVE  IInv'
  OBVIOUS
<1>0. PICK dirty \in BOOLEAN : /\ append # "idle" /\ Fail(dirty)
                               /\ ~dirty => append = "write" /\ ~Partial
  BY DEF WriteFail, FenceFail, Partial
<1> USE DEF IInv
<1>1. file \in Seq(Frame) /\ Len(file) \in Nat /\ synced \in 0..Len(file)
  BY LenProperties DEF TypeOK
<1>2. Staged \in Rec /\ Staged = next - 1 /\ next \in Nat
  BY <1>0, MaxRecAssumption DEF Numbered, TypeOK, Staged, Rec
<1>3. ~dirty => Len(file) = synced
  BY <1>0, <1>1 DEF Partial, TailKnown, Last
<1>4. TypeOK'
  <2>1. broken' \in BOOLEAN
    BY <1>0 DEF Fail
  <2>2. QED
    BY <1>0, <1>2, <2>1 DEF Fail, TypeOK, AppendPhase
<1>5. OneTail' /\ OneOwner' /\ TailKnown' /\ Untorn'
  BY <1>0, <1>3 DEF Fail, OneTail, OneOwner, TailKnown, Untorn
<1>6. (\E n \in 0..synced : Reach(n) /\ Applied(n))' /\ StageSeeded'
  BY <1>0 DEF Fail, Reach, Applied, StageSeeded
<1>7. Numbered'
  BY <1>0, <1>2 DEF Fail, Numbered
<1>8. NoneRefused'
  BY <1>0, <1>2 DEF Fail, Numbered, NoneRefused
<1>9. QED
  BY <1>4, <1>5, <1>6, <1>7, <1>8

\* The fence covers the staged frame, and the caller applies its record: behind
\* a half frame, where no replay comes to it, or at the end of what it reaches.
LEMMA FenceIInv == IInv /\ Fence => IInv'
<1> SUFFICES ASSUME IInv, Fence
             PROVE  IInv'
  OBVIOUS
<1>0. PICK n \in 0..synced : Reach(n) /\ Applied(n)
  BY DEF IInv
<1> USE DEF IInv
<1>1. file \in Seq(Frame) /\ Len(file) \in Nat /\ synced \in 0..Len(file)
  BY LenProperties DEF TypeOK
<1>2. /\ Staged \in Rec /\ Staged = next - 1 /\ next \in Nat
      /\ mode = "ready" /\ rot = "idle" /\ ~broken /\ append = "fence"
  BY MaxRecAssumption DEF Numbered, TypeOK, Staged, Rec, OneOwner, Fence
<1>3. Len(file) = synced + 1 /\ file[synced + 1] = [rec |-> Staged, whole |-> TRUE]
  BY <1>1, <1>2 DEF TailKnown, OneTail
<1>4. /\ mem' \in Seq(Rec) /\ Len(mem) \in Nat
      /\ Len(mem') = Len(mem) + 1
      /\ \A i \in 1..Len(mem) : mem'[i] = mem[i]
      /\ mem'[Len(mem) + 1] = Staged
  <2>1. mem \in Seq(Rec) /\ mem' = Append(mem, Staged)
    BY DEF TypeOK, Fence
  <2>2. QED
    BY <1>2, <2>1, AppendProperties
<1>5. /\ synced' = synced + 1 /\ acked' = acked \cup {Staged} /\ append' = "idle"
      /\ behind' \in {behind, behind \cup {Staged}}
      /\ UNCHANGED <<file, broken, mode, rot, stage, seeded, next, refused>>
  BY <1>3 DEF Fence
<1>6. TypeOK'
  <2>1. seeded' \in 0..Len(mem')
    BY <1>4, <1>5 DEF TypeOK
  <2>2. synced' \in 0..Len(file') /\ acked' \subseteq Rec /\ behind' \subseteq Rec
    BY <1>1, <1>2, <1>3, <1>5 DEF TypeOK
  <2>3. broken' \in BOOLEAN
    BY <1>5 DEF TypeOK
  <2>4. QED
    BY <1>4, <1>5, <2>1, <2>2, <2>3 DEF TypeOK, AppendPhase
<1>7. OneTail' /\ OneOwner' /\ TailKnown'
  BY <1>1, <1>2, <1>3, <1>5 DEF OneTail, OneOwner, TailKnown
<1>8. Untorn' /\ \E m \in 0..synced' : Reach(m)' /\ Applied(m)'
  <2>1. CASE n = synced
    <3>1. Torn(file) = {}
      BY <1>0, <1>1, <1>3, <2>1 DEF Torn, Reach
    <3>2. behind' = behind
      BY <3>1 DEF Fence
    <3>3. Len(mem) = n /\ \A i \in 1..n : file[i].rec = mem[i]
      BY <1>0, <1>2, <2>1 DEF Applied
    <3>4. n + 1 \in 0..synced' /\ Applied(n + 1)'
      BY <1>1, <1>3, <1>4, <1>5, <2>1, <3>3 DEF Applied
    <3>5. Reach(n + 1)'
      <4>1. \A r \in (acked \ behind)' : \E i \in 1..(n + 1) : file[i].rec = r
        BY <1>0, <1>1, <1>3, <1>5, <2>1, <3>2 DEF Reach
      <4>2. QED
        BY <1>0, <1>1, <1>3, <1>5, <2>1, <4>1 DEF Reach
    <3>6. Untorn'
      BY <1>1, <1>3, <1>5, <3>2 DEF Untorn
    <3>7. QED
      BY <3>4, <3>5, <3>6
  <2>2. CASE n < synced
    <3>1. n + 1 \in Torn(file)
      BY <1>0, <1>1, <1>3, <2>2 DEF Torn, Reach
    <3>2. behind' = behind \cup {Staged}
      BY <3>1 DEF Fence
    <3>3. n \in 0..synced' /\ n # synced' /\ Reach(n)'
      BY <1>0, <1>1, <1>5, <2>2, <3>2 DEF Reach
    <3>4. Applied(n)'
      BY <1>0, <1>1, <1>2, <1>4, <1>5, <3>2, <3>3 DEF Applied
    <3>5. Untorn'
      BY <1>0, <1>1, <2>2 DEF Untorn, Reach
    <3>6. QED
      BY <3>3, <3>4, <3>5
  <2>3. QED
    BY <1>1, <2>1, <2>2
<1>9. Numbered' /\ NoneRefused'
  <2>1. \A i \in 1..Len(mem') : i \in 1..Len(mem) \/ i = Len(mem) + 1
    BY <1>4
  <2>2. \A i \in 1..Len(mem') : mem'[i] < next /\ mem'[i] \notin refused
    <3>1. \A i \in 1..Len(mem) : mem[i] < next /\ mem[i] \notin refused
      BY <1>2 DEF Numbered, NoneRefused
    <3>2. Staged < next /\ Staged \notin refused
      BY <1>2 DEF Numbered, Rec
    <3>3. QED
      BY <1>4, <2>1, <3>1, <3>2
  <2>3. QED
    BY <1>2, <1>5, <2>2 DEF Numbered, NoneRefused
<1>10. StageSeeded'
  BY <1>2, <1>5 DEF StageSeeded
<1>11. QED
  BY <1>6, <1>7, <1>8, <1>9, <1>10

\* The rotator's steps up to the rename touch nothing but the staging log.
LEMMA RotStageIInv ==
    ASSUME NEW ok \in BOOLEAN, IInv,
           \/ RotBegin \/ RotClear(ok) \/ RotCreate(ok) \/ RotSeed(ok)
           \/ RotFence(ok) \/ RotDiscard(ok)
    PROVE  IInv'
<1> USE DEF IInv
<1>1. /\ UNCHANGED <<file, synced, append, broken, mode, mem, next, acked, refused, behind>>
      /\ mode = "ready" /\ rot' # "reopen"
  BY DEF RotBegin, RotClear, RotCreate, RotSeed, RotFence, RotDiscard, OneOwner
<1>2. append = "idle"
  BY DEF RotBegin, RotClear, RotCreate, RotSeed, RotFence, RotDiscard, OneOwner,
         TypeOK, AppendPhase
<1>3. /\ file \in Seq(Frame) /\ mem \in Seq(Rec) /\ Len(mem) \in Nat
      /\ stage \in Seq(Rec) /\ Len(stage) \in Nat /\ seeded \in 0..Len(mem)
  BY LenProperties DEF TypeOK
<1>4. OneTail' /\ OneOwner' /\ TailKnown' /\ Untorn'
  BY <1>1, <1>2 DEF OneTail, OneOwner, TailKnown, Untorn
<1>5. (\E n \in 0..synced : Reach(n) /\ Applied(n))' /\ Numbered' /\ NoneRefused'
  BY <1>1, <1>2 DEF Reach, Applied, Numbered, NoneRefused
<1>6. stage' \in Seq(Rec) /\ seeded' \in 0..Len(mem) /\ rot' \in RotPhase /\ StageSeeded'
  <2>1. CASE RotBegin \/ RotClear(ok) \/ RotDiscard(ok)
    BY <1>1, <1>3, <2>1, EmptySeq
       DEF RotBegin, RotClear, RotDiscard, StageSeeded, RotPhase
  <2>2. CASE RotCreate(ok)
    <3>1. Len(<<>>) = 0
      BY EmptySeq
    <3>2. QED
      BY <1>1, <1>3, <2>2, <3>1 DEF RotCreate, StageSeeded, RotPhase
  <2>3. CASE RotSeed(ok)
    <3>1. seeded + 1 \in 1..Len(mem) /\ mem[seeded + 1] \in Rec
      BY <1>3, <2>3, ElementOfSeq DEF RotSeed
    <3>2. CASE ok
      <4>1. stage' = Append(stage, mem[seeded + 1]) /\ seeded' = seeded + 1 /\ rot' = "seed"
        BY <2>3, <3>2 DEF RotSeed
      <4>2. Len(stage) = seeded /\ \A i \in 1..seeded : stage[i] = mem[i]
        BY <2>3 DEF RotSeed, StageSeeded
      <4>3. /\ stage' \in Seq(Rec) /\ Len(stage') = seeded + 1
            /\ \A i \in 1..seeded : stage'[i] = stage[i]
            /\ stage'[seeded + 1] = mem[seeded + 1]
        BY <1>3, <3>1, <4>1, <4>2, AppendProperties
      <4>4. QED
        BY <1>1, <1>3, <3>1, <4>1, <4>2, <4>3 DEF StageSeeded, RotPhase
    <3>3. CASE ~ok
      BY <1>1, <1>3, <2>3, <3>3 DEF RotSeed, StageSeeded, RotPhase
    <3>4. QED
      BY <3>2, <3>3
  <2>4. CASE RotFence(ok)
    BY <1>1, <1>3, <2>4 DEF RotFence, StageSeeded, RotPhase
  <2>5. QED
    BY <2>1, <2>2, <2>3, <2>4
<1>7. TypeOK'
  BY <1>1, <1>6 DEF TypeOK
<1>8. QED
  BY <1>4, <1>5, <1>6, <1>7

\* The log renamed into place is whole and holds every record its caller has
\* applied, the ones behind a half frame included.
LEMMA RotRenameIInv == ASSUME NEW ok \in BOOLEAN, IInv, RotRename(ok) PROVE IInv'
<1>0. PICK n \in 0..synced : Reach(n) /\ Applied(n)
  BY DEF IInv
<1> USE DEF IInv
<1>1. /\ mode = "ready" /\ append = "idle" /\ rot = "rename"
      /\ UNCHANGED <<append, broken, mode, mem, seeded, next, acked, refused>>
  BY DEF RotRename, OneOwner, TypeOK, AppendPhase
<1>2. /\ stage \in Seq(Rec) /\ Len(stage) = Len(mem) /\ Len(mem) \in Nat
      /\ file \in Seq(Frame) /\ Len(file) \in Nat
      /\ \A i \in 1..Len(mem) : stage[i] = mem[i]
      /\ n <= Len(mem) /\ \A i \in 1..n : file[i].rec = mem[i]
  BY <1>0, <1>1, LenProperties DEF TypeOK, StageSeeded, Applied
<1>3. CASE ok
  <2>1. /\ file' = [i \in 1..Len(stage) |-> [rec |-> stage[i], whole |-> TRUE]]
        /\ synced' = Len(stage) /\ stage' = <<>> /\ rot' = "reopen"
        /\ behind' = behind \ ToSet(stage)
    BY <1>3 DEF RotRename
  <2>2. \A i \in 1..Len(stage) : stage[i] \in Rec
    BY <1>2, ElementOfSeq
  <2>3. /\ file' \in Seq(Frame) /\ Len(file') = Len(mem) /\ synced' = Len(mem)
        /\ \A i \in 1..Len(mem) : file'[i].rec = mem[i] /\ file'[i].whole
    <3>1. file' \in [1..Len(stage) -> Frame]
      BY <2>1, <2>2 DEF Frame
    <3>2. file' \in Seq(Frame) /\ Len(file') = Len(stage)
      BY <1>2, <3>1, SeqDef
    <3>3. QED
      BY <1>2, <2>1, <3>2
  <2>4. TypeOK'
    <3>1. stage' \in Seq(Rec)
      BY <2>1, EmptySeq
    <3>2. broken' \in BOOLEAN /\ behind' \subseteq Rec
      BY <1>1, <2>1 DEF TypeOK
    <3>3. rot' \in RotPhase /\ synced' \in 0..Len(file')
      BY <1>2, <2>1, <2>3 DEF RotPhase
    <3>4. QED
      BY <1>1, <2>3, <3>1, <3>2, <3>3 DEF TypeOK
  <2>5. OneTail' /\ OneOwner' /\ TailKnown' /\ Untorn'
    <3>1. ~TornTails => behind' = {}
      BY <2>1 DEF Untorn
    <3>2. QED
      BY <1>1, <1>2, <2>1, <2>3, <3>1 DEF OneTail, OneOwner, TailKnown, Untorn
  <2>6. \E m \in 0..synced' : Reach(m)' /\ Applied(m)'
    <3>1. \A r \in acked' \ behind' : \E i \in 1..Len(mem) : file'[i].rec = r
      <4>1. SUFFICES ASSUME NEW r \in acked', r \notin behind'
                     PROVE  \E i \in 1..Len(mem) : file'[i].rec = r
        OBVIOUS
      <4>2. CASE r \in behind
        <5>1. \E i \in 1..Len(stage) : stage[i] = r
          BY <2>1, <4>1, <4>2 DEF ToSet
        <5>2. QED
          BY <1>2, <2>3, <5>1
      <4>3. CASE r \notin behind
        <5>1. PICK i \in 1..n : file[i].rec = r
          BY <1>0, <1>1, <4>1, <4>3 DEF Reach
        <5>2. QED
          BY <1>2, <2>3, <5>1
      <4>4. QED
        BY <4>2, <4>3
    <3>2. PICK m \in Nat : m = Len(mem)
      BY <1>2
    <3>3. m \in 0..synced' /\ Len(mem') = m /\ synced' = m
      BY <1>1, <2>3, <3>2
    <3>4. Reach(m)'
      BY <1>1, <2>3, <3>1, <3>2, <3>3 DEF Reach
    <3>5. Applied(m)'
      <4>1. \A i \in 1..m : file'[i].rec = mem'[i]
        BY <1>1, <2>3, <3>2
      <4>2. \A i \in (m + 1)..Len(mem') : FALSE
        BY <3>2, <3>3
      <4>3. m <= Len(mem') /\ Len(mem') = m
        BY <3>2, <3>3
      <4>4. QED
        BY <4>1, <4>2, <4>3 DEF Applied
    <3>6. QED
      BY <3>3, <3>4, <3>5
  <2>7. Numbered' /\ NoneRefused'
    BY <1>1, <1>2, <2>3 DEF Numbered, NoneRefused, TypeOK
  <2>8. StageSeeded'
    BY <1>1, <2>1 DEF StageSeeded
  <2>9. QED
    BY <2>4, <2>5, <2>6, <2>7, <2>8
<1>4. CASE ~ok
  <2>1. rot' = "discard" /\ UNCHANGED <<file, synced, stage, behind>>
    BY <1>4 DEF RotRename
  <2>2. TypeOK'
    BY <1>1, <2>1 DEF TypeOK, RotPhase
  <2>3. OneTail' /\ OneOwner' /\ TailKnown' /\ Untorn'
    BY <1>1, <2>1 DEF OneTail, OneOwner, TailKnown, Untorn
  <2>4. n \in 0..synced' /\ Reach(n)' /\ Applied(n)'
    BY <1>0, <1>1, <2>1 DEF Reach, Applied
  <2>5. Numbered' /\ NoneRefused' /\ StageSeeded'
    BY <1>1, <2>1 DEF Numbered, NoneRefused, StageSeeded
  <2>6. QED
    BY <2>2, <2>3, <2>4, <2>5
<1>5. QED
  BY <1>3, <1>4

\* The log taken over has no unfenced frame, so the appender may be re-armed.
LEMMA RotReopenIInv == ASSUME NEW ok \in BOOLEAN, IInv, RotReopen(ok) PROVE IInv'
<1> USE DEF IInv
<1>1. /\ rot = "reopen" /\ rot' = "idle" /\ mode = "ready" /\ append = "idle"
      /\ mode' \in {"ready", "lost"}
      /\ UNCHANGED <<file, synced, append, mem, stage, seeded, next, acked, refused, behind>>
  BY DEF RotReopen, OneOwner, TypeOK, AppendPhase
<1>2. TypeOK'
  <2>1. broken' \in BOOLEAN
    BY DEF RotReopen, TypeOK
  <2>2. QED
    BY <1>1, <2>1 DEF TypeOK, RotPhase
<1>3. OneTail' /\ TailKnown' /\ Untorn' /\ (\E n \in 0..synced : Reach(n) /\ Applied(n))'
  <2>1. OneTail' /\ TailKnown' /\ Untorn'
    BY <1>1 DEF OneTail, TailKnown, Untorn
  <2>2. PICK n \in 0..synced : Reach(n) /\ Applied(n)
    OBVIOUS
  <2>3. Reach(n)'
    BY <1>1, <2>2 DEF Reach
  <2>4. Applied(n)'
    BY <1>1, <2>2 DEF Applied
  <2>5. n \in 0..synced'
    BY <1>1
  <2>6. QED
    BY <2>1, <2>3, <2>4, <2>5
<1>4. OneOwner' /\ Numbered' /\ NoneRefused' /\ StageSeeded'
  BY <1>1 DEF OneOwner, Numbered, NoneRefused, StageSeeded
<1>5. QED
  BY <1>2, <1>3, <1>4

\* A crash keeps the fenced frames, and of the frame behind them nothing, all or
\* a half, which a device that tears none does not leave.
LEMMA SurvivorsKept ==
    ASSUME IInv, NEW f \in Survivors
    PROVE  /\ f \in Seq(Frame)
           /\ Len(f) \in synced..Len(file)
           /\ \A i \in 1..synced : f[i] = file[i]
           /\ \A i \in 1..Len(f) : f[i].rec = file[i].rec
           /\ ~TornTails => \A i \in (synced + 1)..Len(f) : f[i].whole
<1> DEFINE kept == SubSeq(file, 1, synced)
           tail == SubSeq(file, synced + 1, Len(file))
<1>1. /\ file \in Seq(Frame) /\ Len(file) \in Nat /\ synced \in 0..Len(file)
      /\ Len(file) <= synced + 1
  BY LenProperties DEF TypeOK, IInv, OneTail
<1>2. \A i \in 1..Len(file) : file[i] \in Frame
  BY <1>1, ElementOfSeq
<1>3. /\ kept \in Seq(Frame) /\ Len(kept) = synced
      /\ \A i \in 1..synced : kept[i] = file[i]
  <2>1. \A i \in 1..synced : file[i] \in Frame
    BY <1>1, <1>2
  <2>2. QED
    BY <1>1, <2>1, SubSeqProperties
<1>4. /\ tail \in Seq(Frame) /\ Len(tail) = Len(file) - synced
      /\ \A i \in 1..(Len(file) - synced) : tail[i] = file[synced + i]
  <2>1. \A i \in (synced + 1)..Len(file) : file[i] \in Frame
    BY <1>1, <1>2
  <2>2. QED
    BY <1>1, <2>1, SubSeqProperties
<1>5. \/ f = kept
      \/ \E n \in 1..Len(tail) : f = kept \o SubSeq(tail, 1, n) /\ \A i \in 1..n : tail[i].whole
      \/ TornTails /\ tail # <<>> /\ f = Append(kept, [tail[1] EXCEPT !.whole = FALSE])
  BY DEF Survivors
<1> HIDE DEF kept, tail
<1>6. CASE f = kept
  BY <1>1, <1>3, <1>6
<1>7. ASSUME NEW n \in 1..Len(tail), f = kept \o SubSeq(tail, 1, n),
             \A i \in 1..n : tail[i].whole
      PROVE  /\ f \in Seq(Frame) /\ Len(f) = synced + 1 /\ Len(file) = synced + 1
             /\ \A i \in 1..(synced + 1) : f[i] = file[i]
             /\ f[synced + 1].whole
  <2>1. n = 1 /\ Len(tail) = 1 /\ Len(file) = synced + 1
    BY <1>1, <1>4, <1>7
  <2> DEFINE add == SubSeq(tail, 1, n)
  <2>2. /\ add \in Seq(Frame) /\ Len(add) = 1 /\ add[1] = tail[1]
    <3>1. \A i \in 1..n : tail[i] \in Frame
      BY <1>4, <1>7, ElementOfSeq
    <3>2. QED
      BY <1>4, <2>1, <3>1, SubSeqProperties
  <2>3. f = kept \o add
    BY <1>7
  <2> HIDE DEF add
  <2>4. /\ kept \o add \in Seq(Frame)
        /\ Len(kept \o add) = Len(kept) + Len(add)
        /\ \A i \in 1..(Len(kept) + Len(add)) :
               (kept \o add)[i] = IF i <= Len(kept) THEN kept[i] ELSE add[i - Len(kept)]
    BY <1>3, <2>2, ConcatProperties, Zenon
  <2>5. /\ f \in Seq(Frame) /\ Len(f) = synced + 1
        /\ \A i \in 1..(synced + 1) : f[i] = IF i <= synced THEN kept[i] ELSE add[i - synced]
    BY <1>1, <1>3, <2>2, <2>3, <2>4
  <2>6. f[synced + 1] = tail[1] /\ tail[1].whole /\ tail[1] = file[synced + 1]
    <3>1. f[synced + 1] = add[1]
      BY <1>1, <2>5
    <3>2. QED
      BY <1>1, <1>4, <1>7, <2>1, <2>2, <3>1
  <2>7. \A i \in 1..synced : f[i] = file[i]
    BY <1>1, <1>3, <2>5
  <2>8. QED
    BY <1>1, <2>1, <2>5, <2>6, <2>7
<1>8. ASSUME tail # <<>>, f = Append(kept, [tail[1] EXCEPT !.whole = FALSE])
      PROVE  /\ f \in Seq(Frame) /\ Len(f) = synced + 1 /\ Len(file) = synced + 1
             /\ \A i \in 1..synced : f[i] = file[i]
             /\ f[synced + 1].rec = file[synced + 1].rec
  <2> DEFINE fr == [tail[1] EXCEPT !.whole = FALSE]
  <2>1. Len(tail) = 1 /\ Len(file) = synced + 1 /\ tail[1] = file[synced + 1]
    <3>1. Len(tail) # 0
      BY <1>4, <1>8, EmptySeq
    <3>2. Len(tail) = 1 /\ Len(file) = synced + 1
      BY <1>1, <1>4, <3>1
    <3>3. 1 \in 1..(Len(file) - synced) /\ synced + 1 \in Nat
      BY <1>1, <3>2
    <3>4. QED
      BY <1>4, <3>2, <3>3
  <2>2. file[synced + 1] \in Frame
    BY <1>1, <1>2, <2>1
  <2>3. fr \in Frame /\ fr.rec = file[synced + 1].rec
    BY <2>1, <2>2 DEF Frame
  <2>4. f = Append(kept, fr)
    BY <1>8
  <2> HIDE DEF fr
  <2>5. /\ f \in Seq(Frame) /\ Len(f) = Len(kept) + 1
        /\ \A i \in 1..Len(kept) : f[i] = kept[i]
        /\ f[Len(kept) + 1] = fr
    BY <1>3, <2>3, <2>4, AppendProperties
  <2>6. QED
    BY <1>1, <1>3, <2>1, <2>3, <2>5
<1>9. CASE \E n \in 1..Len(tail) : f = kept \o SubSeq(tail, 1, n) /\ \A i \in 1..n : tail[i].whole
  <2>1. PICK n \in 1..Len(tail) : f = kept \o SubSeq(tail, 1, n) /\ \A i \in 1..n : tail[i].whole
    BY <1>9
  <2>2. /\ f \in Seq(Frame) /\ Len(f) = synced + 1 /\ Len(file) = synced + 1
        /\ \A i \in 1..(synced + 1) : f[i] = file[i]
        /\ f[synced + 1].whole
    BY <1>7, <2>1
  <2>3. \A i \in (synced + 1)..Len(f) : i = synced + 1
    BY <1>1, <2>2
  <2>4. QED
    BY <1>1, <2>2, <2>3
<1>10. CASE TornTails /\ tail # <<>> /\ f = Append(kept, [tail[1] EXCEPT !.whole = FALSE])
  BY <1>1, <1>8, <1>10
<1>11. QED
  BY <1>5, <1>6, <1>9, <1>10

\* What survives a crash holds everything acknowledged that a replay reached.
LEMMA CrashIInv == ASSUME IInv, Crash PROVE IInv'
<1>0. PICK n \in 0..synced : Reach(n) /\ Applied(n)
  BY DEF IInv
<1>1. file \in Seq(Frame) /\ Len(file) \in Nat /\ synced \in 0..Len(file) /\ Len(file) <= synced + 1
  BY LenProperties DEF TypeOK, IInv, OneTail
<1>2. /\ file' \in Seq(Frame) /\ Len(file') \in synced..Len(file)
      /\ \A i \in 1..synced : file'[i] = file[i]
      /\ \A i \in 1..Len(file') : file'[i].rec = file[i].rec
      /\ ~TornTails => \A i \in (synced + 1)..Len(file') : file'[i].whole
  BY SurvivorsKept DEF Crash
<1>3. /\ append' = "idle" /\ broken' = FALSE /\ mode' = "open" /\ mem' = <<>>
      /\ rot' = "idle" /\ seeded' = 0 /\ UNCHANGED <<stage, next, acked, behind>>
      /\ synced' = Len(file')
      /\ refused' = IF append # "idle" THEN refused \cup {Staged} ELSE refused
  BY DEF Crash
<1> USE DEF IInv
<1>4. append # "idle" => Staged \in Rec /\ Staged < next
  BY MaxRecAssumption DEF Numbered, TypeOK, Staged, Rec
<1>5. TypeOK'
  <2>1. broken' \in BOOLEAN
    BY <1>3
  <2>2. mem' \in Seq(Rec) /\ seeded' \in 0..Len(mem')
    BY <1>3, EmptySeq
  <2>3. refused' \subseteq Rec
    BY <1>3, <1>4 DEF TypeOK
  <2>4. synced' \in 0..Len(file')
    BY <1>1, <1>2, <1>3
  <2>5. QED
    BY <1>2, <1>3, <2>1, <2>2, <2>3, <2>4 DEF TypeOK, AppendPhase, RotPhase
<1>6. OneTail' /\ OneOwner' /\ TailKnown'
  BY <1>1, <1>2, <1>3 DEF OneTail, OneOwner, TailKnown
<1>7. Untorn'
  <2>1. SUFFICES ASSUME ~TornTails PROVE (behind = {} /\ \A i \in 1..synced : file[i].whole)'
    BY DEF Untorn
  <2>2. behind = {} /\ \A i \in 1..synced : file[i].whole
    BY <2>1 DEF Untorn
  <2>3. \A i \in 1..Len(file') : i \in 1..synced \/ i \in (synced + 1)..Len(file')
    BY <1>1, <1>2
  <2>4. QED
    BY <1>2, <1>3, <2>1, <2>2, <2>3
<1>8. \E m \in 0..synced' : Reach(m)' /\ Applied(m)'
  <2>1. \A m : Applied(m)'
    BY <1>3 DEF Applied
  <2>2. CASE n = synced /\ Len(file') = synced + 1 /\ file'[synced + 1].whole
    <3>1. n + 1 \in 0..synced' /\ Reach(n + 1)'
      BY <1>0, <1>1, <1>2, <1>3, <2>2 DEF Reach
    <3>2. QED
      BY <2>1, <3>1
  <2>3. CASE ~(n = synced /\ Len(file') = synced + 1 /\ file'[synced + 1].whole)
    <3>1. n < synced' => ~file'[n + 1].whole
      BY <1>0, <1>1, <1>2, <1>3, <2>3 DEF Reach
    <3>2. n \in 0..synced' /\ Reach(n)'
      BY <1>0, <1>1, <1>2, <1>3, <3>1 DEF Reach
    <3>3. QED
      BY <2>1, <3>2
  <2>4. QED
    BY <2>2, <2>3
<1>9. Numbered'
  BY <1>1, <1>2, <1>3, <1>4, EmptySeq DEF Numbered
<1>10. NoneRefused' /\ StageSeeded'
  BY <1>3 DEF NoneRefused, StageSeeded
<1>11. QED
  BY <1>5, <1>6, <1>7, <1>8, <1>9, <1>10

\* Every step of the log and its machines keeps the invariant.
LEMMA NextIInv == ASSUME IInv, [Next]_vars PROVE IInv'
<1>1. CASE OpenReplay
  BY <1>1, OpenReplayIInv
<1>2. CASE Begin
  BY <1>2, BeginIInv
<1>3. CASE AppendPoll
  BY <1>3, WriteShortIInv, WriteAllIInv, FailIInv, FenceIInv DEF AppendPoll
<1>4. CASE RotBegin
  BY <1>4, RotStageIInv
<1>5. CASE RotPoll
  BY <1>5, RotStageIInv, RotRenameIInv, RotReopenIInv DEF RotPoll
<1>6. CASE Crash
  BY <1>6, CrashIInv
<1>7. CASE UNCHANGED vars
  <2>1. /\ TypeOK' /\ OneTail' /\ OneOwner' /\ TailKnown'
        /\ Numbered' /\ NoneRefused' /\ StageSeeded' /\ Untorn'
    BY <1>7 DEF vars, IInv, TypeOK, OneTail, OneOwner, TailKnown,
                Numbered, NoneRefused, StageSeeded, Staged, Untorn
  <2>2. PICK n \in 0..synced : Reach(n) /\ Applied(n)
    BY DEF IInv
  <2>3. n \in 0..synced' /\ Reach(n)' /\ Applied(n)'
    BY <1>7, <2>2 DEF vars, Reach, Applied
  <2>4. QED
    BY <2>1, <2>3 DEF IInv
<1>8. QED
  BY <1>1, <1>2, <1>3, <1>4, <1>5, <1>6, <1>7 DEF Next

-------------------------------------------------------------------------------
(***************************************************************************)
(* The theorems.                                                           *)
(***************************************************************************)

\* The invariant holds throughout every run of the log: the four machines of
\* wal_io.rs and the crashes keep it.
THEOREM Inductive == Spec => []IInv
<1>1. IInv /\ [Next]_vars => IInv'
  BY NextIInv
<1>2. QED
  BY InitIInv, <1>1, PTL DEF Spec

\* The state of the log and of its machines is well typed.
THEOREM TypeCorrect == Spec => []TypeOK
<1>1. IInv => TypeOK
  BY DEF IInv
<1>2. QED
  BY Inductive, <1>1, PTL

\* What a replay of the file as it stands would hand back.
LEMMA ReplayNow ==
    ASSUME IInv, NEW n \in 0..synced, Reach(n)
    PROVE  \E m \in n..Len(file) : /\ Replayable(file) = [i \in 1..m |-> file[i].rec]
                                   /\ Len(file) = synced => m = n
<1>1. file \in Seq(Frame) /\ Len(file) \in Nat /\ synced \in 0..Len(file) /\ Len(file) <= synced + 1
  BY LenProperties DEF TypeOK, IInv, OneTail
<1>2. CASE n = synced /\ Len(file) = synced + 1 /\ file[synced + 1].whole
  <2>1. Replayable(file) = [i \in 1..(n + 1) |-> file[i].rec]
    <3>1. \A i \in 1..(n + 1) : file[i].whole
      BY <1>1, <1>2 DEF Reach
    <3>2. QED
      BY <1>1, <1>2, <3>1, ReplayPrefix
  <2>2. QED
    BY <1>1, <1>2, <2>1
<1>3. CASE ~(n = synced /\ Len(file) = synced + 1 /\ file[synced + 1].whole)
  <2>1. Replayable(file) = [i \in 1..n |-> file[i].rec]
    <3>1. n < Len(file) => ~file[n + 1].whole
      BY <1>1, <1>3 DEF Reach
    <3>2. QED
      BY <1>1, <3>1, ReplayPrefix DEF Reach
  <2>2. QED
    BY <1>1, <2>1
<1>4. QED
  BY <1>2, <1>3

\* Every record acknowledged durable (WalAppender's Durable) is handed back by
\* a replay of the log, at every moment, whatever failed, crashed or was torn
\* since, unless it was acknowledged behind a half frame and not seeded anew.
THEOREM AckedSurvive == Spec => []AckedReplayable
<1>1. IInv => AckedReplayable
  <2> SUFFICES ASSUME IInv PROVE AckedReplayable
    OBVIOUS
  <2>1. PICK n \in 0..synced : Reach(n)
    BY DEF IInv
  <2>2. file \in Seq(Frame) /\ Len(file) \in Nat /\ synced \in 0..Len(file)
    BY LenProperties DEF TypeOK, IInv
  <2>3. PICK m \in n..Len(file) : Replayable(file) = [i \in 1..m |-> file[i].rec]
    BY <2>1, ReplayNow
  <2>4. m \in 0..Len(file) /\ n <= m
    BY <2>2
  <2>5. ToSet(Replayable(file)) = {file[i].rec : i \in 1..m}
    BY <2>2, <2>3, <2>4, ReplaySeq
  <2>6. QED
    BY <2>1, <2>2, <2>4, <2>5 DEF AckedReplayable, Reach
<1>2. QED
  BY Inductive, <1>1, PTL

\* On a device that leaves no half frame behind a crash, none is excepted.
THEOREM UntornSurvive == ASSUME ~TornTails PROVE Spec => []NoneBehind
<1>1. IInv => behind = {}
  BY DEF IInv, Untorn
<1>2. AckedReplayable /\ behind = {} => NoneBehind
  BY DEF AckedReplayable, NoneBehind
<1>3. QED
  BY Inductive, AckedSurvive, <1>1, <1>2, PTL

\* A log that serves, with nothing in flight and its latch down, replays to the
\* records its caller has applied, in their order: to all of them, or up to the
\* half frame a crash left in it.
THEOREM ReplaysExactly == Spec => []ReplayExact
<1>1. IInv => ReplayExact
  <2> SUFFICES ASSUME IInv, mode = "ready", append = "idle", rot = "idle", ~broken
               PROVE  /\ Len(Replayable(file)) <= Len(mem)
                      /\ \A i \in 1..Len(mem) : IF i <= Len(Replayable(file))
                                               THEN Replayable(file)[i] = mem[i]
                                               ELSE mem[i] \in behind
                      /\ Torn(file) = {} => Replayable(file) = mem
    BY DEF ReplayExact
  <2>1. PICK n \in 0..synced : Reach(n) /\ Applied(n)
    BY DEF IInv
  <2>2. /\ file \in Seq(Frame) /\ Len(file) \in Nat /\ Len(file) = synced
        /\ mem \in Seq(Rec) /\ Len(mem) \in Nat
    BY LenProperties DEF TypeOK, TailKnown, IInv
  <2>3. Replayable(file) = [i \in 1..n |-> file[i].rec]
    BY <2>1, <2>2, ReplayNow
  <2>4. Replayable(file) \in Seq(Rec) /\ Len(Replayable(file)) = n
    BY <2>2, <2>3, ReplaySeq
  <2>5. n <= Len(mem) /\ \A i \in 1..n : Replayable(file)[i] = mem[i]
    BY <2>1, <2>3 DEF Applied
  <2>6. \A i \in (n + 1)..Len(mem) : mem[i] \in behind
    BY <2>1 DEF Applied
  <2>7. ASSUME Torn(file) = {} PROVE Replayable(file) = mem
    <3>1. n = synced
      BY <2>1, <2>2, <2>7 DEF Torn, Reach
    <3>2. Len(mem) = n
      BY <2>1, <3>1 DEF Applied
    <3>3. QED
      BY <2>2, <2>4, <2>5, <3>2, SeqEqual
  <2>8. QED
    BY <2>2, <2>4, <2>5, <2>6, <2>7
<1>2. QED
  BY Inductive, <1>1, PTL

\* No fence of a serving log covers a record its caller was refused, where a
\* replay would hand it back: the latch of WalAppender::fail stops every append
\* that would bury one.
THEOREM RefusedStayUnfenced == Spec => []RefusedUnfenced
<1>1. IInv => RefusedUnfenced
  <2> SUFFICES ASSUME IInv, mode = "ready"
               PROVE  \A r \in ToSet(Replayable(SubSeq(file, 1, synced))) : r \notin refused
    BY DEF RefusedUnfenced
  <2> DEFINE f == SubSeq(file, 1, synced)
  <2>1. PICK n \in 0..synced : Reach(n) /\ Applied(n)
    BY DEF IInv
  <2>2. /\ file \in Seq(Frame) /\ Len(file) \in Nat /\ synced \in 0..Len(file)
        /\ \A i \in 1..synced : file[i] \in Frame
    BY LenProperties, ElementOfSeq DEF TypeOK, IInv
  <2>3. f \in Seq(Frame) /\ Len(f) = synced /\ \A i \in 1..synced : f[i] = file[i]
    BY <2>2, SubSeqProperties
  <2> HIDE DEF f
  <2>4. /\ \A i \in 1..n : f[i].whole
        /\ n < Len(f) => ~f[n + 1].whole
    BY <2>1, <2>2, <2>3 DEF Reach
  <2>5. Replayable(f) = [i \in 1..n |-> f[i].rec]
    BY <2>1, <2>2, <2>3, <2>4, ReplayPrefix
  <2>6. ToSet(Replayable(f)) = {f[i].rec : i \in 1..n}
    BY <2>2, <2>3, <2>5, ReplaySeq
  <2>7. \A i \in 1..n : f[i].rec = mem[i] /\ mem[i] \notin refused
    BY <2>1, <2>2, <2>3 DEF Applied, NoneRefused, IInv, TypeOK
  <2>8. QED
    BY <2>6, <2>7 DEF f
<1>2. QED
  BY Inductive, <1>1, PTL
===============================================================================
