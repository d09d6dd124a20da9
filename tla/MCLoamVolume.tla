---------------------------- MODULE MCLoamVolume ----------------------------
(* Small instances of LoamVolume.                                           *)
EXTENDS LoamVolume

Read(lba, n) == Ask("read", lba, n, 0)
Write(lba, n, val) == Ask("write", lba, n, val)
Flush == Ask("flush", 0, 0, 0)
Fua(r) == [r EXCEPT !.fua = TRUE]
Pre(r) == [r EXCEPT !.pre = TRUE]
Exec1(r) == [r EXCEPT !.how = "exec"]

Base == [depth |-> 1, bound |-> << <<1, 0>>, <<>>, <<1>> >>, other |-> << <<>>, <<2, 2>>, <<1>> >>,
         asks |-> <<>>, expect |-> 0, overlap |-> FALSE, gives |-> FALSE, drains |-> FALSE,
         faults |-> 0, losses |-> 0, ticks |-> 0, rivals |-> FALSE, sweeps |-> FALSE,
         reopens |-> 0, unreadable |-> FALSE]
\* A map of leaves.
Deep == [Base EXCEPT !.depth = 2, !.bound = << << <<1, 0>>, <<>> >>, << <<1>> >> >>,
                     !.other = << <<>>, << <<2>> >> >>]

\* What is asked, with one refusal and the sweep about.
Plain == [Base EXCEPT !.asks = <<Write(1, 2, 2), Read(0, 2), Fua(Write(4, 1, 0)), Flush>>,
                      !.faults = 1, !.sweeps = TRUE]
\* More written than may be staged.
Full == [Base EXCEPT !.asks = <<Write(0, 2, 2), Write(2, 2, 1), Exec1(Fua(Write(3, 2, 2))), Read(4, 1)>>,
                     !.faults = 1, !.sweeps = TRUE]
Barrier == [Base EXCEPT !.asks = <<Write(2, 2, 1), Pre(Fua(Write(0, 1, 2))), Exec1(Flush), Write(4, 1, 0)>>,
                        !.faults = 2, !.sweeps = TRUE, !.drains = TRUE]
Leaves == [Deep EXCEPT !.asks = <<Write(3, 2, 2), Flush, Write(4, 1, 0), Fua(Write(0, 1, 0))>>,
                       !.faults = 1, !.sweeps = TRUE]
\* The lease runs out under it; another writer comes; another instance.
Timed == [Base EXCEPT !.asks = <<Write(0, 2, 2), Flush, Read(0, 2)>>,
                      !.ticks = 4, !.rivals = TRUE, !.reopens = 1, !.sweeps = TRUE]
TimedLeaves == [Deep EXCEPT !.asks = <<Fua(Write(3, 2, 2)), Read(4, 1)>>,
                            !.ticks = 4, !.rivals = TRUE, !.drains = TRUE, !.faults = 1]
\* An answer that never comes; a body that cannot be read.
Lossy == [Base EXCEPT !.asks = <<Write(1, 2, 2), Flush, Read(4, 1)>>,
                      !.losses = 1, !.faults = 1, !.unreadable = TRUE, !.reopens = 1, !.drains = TRUE]
MCConfigs == {Plain, Full, Barrier, Leaves, Timed, TimedLeaves, Lossy}

\* A write over an extent that a read still waits for.
OverlapConfigs == {[Base EXCEPT !.asks = <<Read(0, 1), Write(0, 2, 2), Read(0, 1)>>, !.overlap = TRUE]}
\* A drain with a write still queued.
DrainConfigs == {[Base EXCEPT !.asks = <<Write(0, 1, 2)>>, !.drains = TRUE]}
\* A body of a commit refused while the next is in hand.
RefusedConfigs == {[Base EXCEPT !.asks = <<Write(0, 2, 2), Write(2, 2, 2), Write(4, 1, 2), Flush>>,
                                !.faults = 1]}
=============================================================================
