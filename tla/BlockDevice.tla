---------------------------- MODULE BlockDevice ----------------------------
(***************************************************************************)
(* What loam_volume promises as a storage.block source: one writer's       *)
(* device with a volatile cache.  A write takes effect whole, a read       *)
(* answers what was last written, a commit makes everything written so far *)
(* durable at once, and a request that waits for durability is answered    *)
(* only once it is.  A device that closes loses what was not committed and *)
(* nothing else, and one whose volume another writer took commits no more. *)
(***************************************************************************)
EXTENDS Naturals

CONSTANTS Contents,   \* what the whole device may hold: functions over its blocks
          Requests    \* what may be asked of it

VARIABLES
    cur, dur,     \* what is written; what is committed
    gen, dgen,    \* writes that changed something; those the commit covers
    open,
    taken,        \* another writer has committed since the device opened
    said          \* the last request answered without an error

vars == <<cur, dur, gen, dgen, open, taken, said>>

Range(r) == r.lba .. (r.lba + r.n - 1)
Put(c, r) == [b \in DOMAIN c |-> IF b \in Range(r) THEN r.val ELSE c[b]]
Get(c, r) == [b \in Range(r) |-> c[b]]

\* floor: the writes the answer vouches for.
Said(r, got, floor, durable) == <<[r |-> r, got |-> got, floor |-> floor, durable |-> durable]>>

Init ==
    /\ dur \in Contents /\ cur = dur
    /\ gen = 0 /\ dgen = 0
    /\ ~open /\ ~taken
    /\ said = <<>>

Open ==
    /\ ~open /\ open'
    /\ UNCHANGED <<cur, dur, gen, dgen, taken, said>>

\* What was not committed is gone.
Close ==
    /\ open /\ ~open'
    /\ cur' = dur /\ gen' = 0 /\ dgen' = 0 /\ ~taken'
    /\ UNCHANGED <<dur, said>>

\* A write takes effect, whole.
Effect(r) ==
    /\ r.op = "write"
    /\ cur' = Put(cur, r)
    /\ gen' = IF cur' = cur THEN gen ELSE gen + 1

Write(r) == open /\ Effect(r) /\ UNCHANGED <<dur, dgen, open, taken, said>>

AnswerWrite(r) ==
    /\ open /\ Effect(r)
    /\ \E floor \in 0..gen : /\ r.pre => floor <= dgen
                            /\ said' = Said(r, <<>>, floor, FALSE)
    /\ UNCHANGED <<dur, dgen, open, taken>>

AnswerRead(r) ==
    /\ open /\ r.op = "read"
    /\ said' = Said(r, Get(cur, r), 0, FALSE)
    /\ UNCHANGED <<cur, dur, gen, dgen, open, taken>>

AnswerDurable(r) ==
    /\ open /\ r.op # "read"
    /\ \E floor \in 0..dgen : said' = Said(r, <<>>, floor, TRUE)
    /\ UNCHANGED <<cur, dur, gen, dgen, open, taken>>

Commit ==
    /\ open /\ ~taken
    /\ dur' = cur /\ dgen' = gen
    /\ UNCHANGED <<cur, gen, open, taken, said>>

\* Another writer's commit, or one that was asked for before the device closed.
Take ==
    /\ dur' \in Contents
    /\ taken' = open
    /\ cur' = IF open THEN cur ELSE dur'
    /\ UNCHANGED <<gen, dgen, open, said>>

Next ==
    \/ Open \/ Close \/ Commit \/ Take
    \/ \E r \in Requests : Write(r) \/ AnswerWrite(r) \/ AnswerRead(r) \/ AnswerDurable(r)

Spec == Init /\ [][Next]_vars
=============================================================================
