------------------------------ MODULE BodyStore ------------------------------
(***************************************************************************)
(* body_store: bodies in files named by the digest of their bytes, an      *)
(* index of slots in memory, and streamed writes to temporaries.  From     *)
(* body_store_body.rs.                                                     *)
(*                                                                         *)
(* One request is served at a time.  An fs call that answers EAGAIN or     *)
(* EINPROGRESS parks it, so each phase is a step here and a poll that is   *)
(* not decided is a stuttering step; only owed removals of temporaries and *)
(* the reaper run beside a parked request.  GET, HEAD, RANGE and WAPPEND,  *)
(* whose files nothing changes meanwhile, are one step each.               *)
(*                                                                         *)
(* A body's file is absent, whole, or torn: torn bytes do not hash to the  *)
(* name.  after is the set of states in which a crash may leave it.        *)
(***************************************************************************)
EXTENDS Naturals, FiniteSets

CONSTANTS
    Digest,      \* bodies and shard keys
    Keyed,       \* the ones that are keys
    Wid,         \* write ids
    Slots,       \* BODY_SLOTS
    Chunks,      \* chunks of a streamed body
    Providers,   \* the capabilities of the providers there may be
    Faults       \* the fs calls that may fail

ASSUME NamesAssumption == Digest # {} /\ Wid # {}
ASSUME KeyedAssumption == Keyed \subseteq Digest
ASSUME SlotsAssumption == Slots \in Nat
ASSUME ChunksAssumption == Chunks \in Nat \ {0}
ASSUME ProvidersAssumption == Providers \subseteq SUBSET {"rename", "fsync_name"}
ASSUME FaultsAssumption == Faults \subseteq {"bytes", "rename", "name", "unlink"}

VARIABLES
    caps,        \* the provider's capabilities
    content,     \* the file at each content path
    after,       \* what a crash may leave there
    staging,     \* the file at each .pub_ path
    temp,        \* the file at each .wip_ path
    slots,       \* the digests indexed
    sess,        \* write sessions
    job,         \* the request held
    todo,        \* directory entries the held SCAN has still to examine
    \* History, read by no action:
    acked,       \* digests acknowledged stored, no deletion asked since
    retired,     \* digests acknowledged deleted, and not written since
    served       \* the bytes of the last GET or RANGE answered

vars == <<caps, content, after, staging, temp, slots, sess, job, todo, acked, retired,
          served>>
disk == <<content, after, staging>>
history == <<acked, retired, served>>

File == {"none", "torn", "whole"}
Session == [open : BOOLEAN,      \* in_use
            owed : BOOLEAN,      \* unlink_owed
            digest : Digest,     \* expect
            got : 0..Chunks,     \* chunks written
            good : BOOLEAN]      \* whether they hash towards expect
JobOp == {"put", "delete", "scan", "wopen", "wcommit"}
Phase == {"clear", "write", "publish", "discard", "unlink", "fence", "probe",
          "sweep", "create", "copy", "name"}
Entry == [kind : {"body", "pub"}, of : Digest] \cup [kind : {"wip"}, of : Wid]

None == [op |-> "none"]

\* publish_tier.  A query the provider has not answered is asked again.
Tier == IF "rename" \in caps THEN "rename"
        ELSE IF "fsync_name" \in caps THEN "namefence"
        ELSE "unavailable"

TypeOK ==
    /\ caps \in Providers
    /\ content \in [Digest -> File]
    /\ after \in [Digest -> (SUBSET File) \ {{}}]
    /\ staging \in [Digest -> File]
    /\ temp \in [Wid -> {"none", "stale", "stream"}]
    /\ slots \subseteq Digest
    /\ Cardinality(slots) <= Slots
    /\ sess \in [Wid -> Session]
    /\ job \in {None} \cup [op : JobOp, digest : Digest, wid : Wid, phase : Phase]
    /\ todo \subseteq Entry
    /\ acked \subseteq Digest
    /\ retired \subseteq Digest
    /\ served \in File

Closed == [open |-> FALSE, owed |-> FALSE, digest |-> CHOOSE d \in Digest : TRUE,
           got |-> 0, good |-> TRUE]

Init ==
    /\ caps \in Providers
    /\ content = [d \in Digest |-> "none"]
    /\ after = [d \in Digest |-> {"none"}]
    /\ staging = [d \in Digest |-> "none"]
    /\ temp = [w \in Wid |-> "none"]
    /\ slots = {}
    /\ sess = [w \in Wid |-> Closed]
    /\ job = None
    /\ todo = {}
    /\ acked = {}
    /\ retired = {}
    /\ served = "none"

Idle == job = None

Hold(op, d, w, phase) ==
    job' = [op |-> op, digest |-> d, wid |-> w, phase |-> phase]
AnyWid == CHOOSE w \in Wid : TRUE
At(op, phase) == job.op = op /\ job.phase = phase
Goto(phase) == job' = [job EXCEPT !.phase = phase]

\* record_slot, and the rehydrations: a full index stays as it is.
Indexed(d) == IF Cardinality(slots) < Slots THEN slots \cup {d} ELSE slots

\* Bytes written in place: of a body that was whole they are the same bytes.
WriteInPlace(d) ==
    IF content[d] = "whole" /\ d \notin Keyed THEN UNCHANGED <<content, after>>
    ELSE /\ content' = [content EXCEPT ![d] = "torn"]
         /\ after' = [after EXCEPT ![d] = @ \cup {"torn", "whole"}]

\* The byte fence: whole, but a name just made is still volatile.
FenceInPlace(d) ==
    /\ content' = [content EXCEPT ![d] = "whole"]
    /\ after' = [after EXCEPT ![d] = (@ \cap {"none"}) \cup {"whole"}]

\* A rename publishes the file and both its parents.
Publish(d, file) ==
    /\ content' = [content EXCEPT ![d] = file]
    /\ after' = [after EXCEPT ![d] = {file}]

Acknowledge(d) ==
    /\ slots' = Indexed(d)
    /\ acked' = acked \cup {d}
    /\ job' = None

Failing(call, ok) == ~ok => call \in Faults

(***************************************************************************)
(* PUT and PUT_KEYED (handle_put, handle_put_keyed, poll_blob).  A body    *)
(* whose digest is indexed is acknowledged at once; a keyed one is always  *)
(* written.  By rename: clear the staging file, write and fence it, rename *)
(* it.  By name fence: in place, a keyed file removed first.               *)
(***************************************************************************)
PutIndexed(d) ==
    /\ Idle
    /\ d \notin Keyed
    /\ d \in slots
    /\ acked' = acked \cup {d}
    /\ UNCHANGED <<caps, temp, slots, sess, job, todo, retired, served>>
    /\ UNCHANGED disk

PutBegin(d) ==
    /\ Idle
    /\ d \in Keyed \/ d \notin slots
    /\ Tier # "unavailable"
    /\ Hold("put", d, AnyWid,
            IF Tier = "rename" \/ d \in Keyed THEN "clear" ELSE "write")
    /\ retired' = retired \ {d}
    /\ UNCHANGED <<caps, temp, slots, sess, todo, acked, served>>
    /\ UNCHANGED disk

\* BLOB_CLEAR: any decided answer goes on.
PutClear(ok) ==
    LET d == job.digest
    IN  /\ At("put", "clear")
        /\ Failing("unlink", ok)
        /\ Goto("write")
        /\ IF ~ok THEN UNCHANGED disk
           ELSE IF Tier = "rename"
           THEN staging' = [staging EXCEPT ![d] = "none"] /\ UNCHANGED <<content, after>>
           ELSE /\ content' = [content EXCEPT ![d] = "none"]
                /\ after' = [after EXCEPT ![d] = @ \cup {"none"}]
                /\ UNCHANGED staging
        /\ UNCHANGED <<caps, temp, slots, sess, todo>>
        /\ UNCHANGED history

\* poll_write_fence: some bytes; then all of them and their fence.
PutWrite ==
    LET d == job.digest
    IN  /\ At("put", "write")
        /\ IF Tier = "rename"
           THEN staging' = [staging EXCEPT ![d] = "torn"] /\ UNCHANGED <<content, after>>
           ELSE WriteInPlace(d) /\ UNCHANGED staging
        /\ UNCHANGED <<caps, temp, slots, sess, job, todo>>
        /\ UNCHANGED history

PutFence(ok) ==
    LET d == job.digest
    IN  /\ At("put", "write")
        /\ Failing("bytes", ok)
        /\ IF ok THEN Goto("publish")
           ELSE IF Tier = "rename" THEN Goto("discard") ELSE job' = None
        /\ IF ~ok THEN UNCHANGED disk
           ELSE IF Tier = "rename"
           THEN staging' = [staging EXCEPT ![d] = "whole"] /\ UNCHANGED <<content, after>>
           ELSE FenceInPlace(d) /\ UNCHANGED staging
        /\ UNCHANGED <<caps, temp, slots, sess, todo>>
        /\ UNCHANGED history

PutPublish(ok) ==
    LET d == job.digest
    IN  /\ At("put", "publish")
        /\ Failing(IF Tier = "rename" THEN "rename" ELSE "name", ok)
        /\ IF ok
           THEN /\ IF Tier = "rename"
                   THEN Publish(d, staging[d]) /\ staging' = [staging EXCEPT ![d] = "none"]
                   ELSE Publish(d, content[d]) /\ UNCHANGED staging
                /\ Acknowledge(d)
           ELSE /\ IF Tier = "rename" THEN Goto("discard") ELSE job' = None
                /\ UNCHANGED <<content, after, staging, slots, acked>>
        /\ UNCHANGED <<caps, temp, sess, todo, retired, served>>

PutDiscard(ok) ==
    /\ At("put", "discard")
    /\ Failing("unlink", ok)
    /\ staging' = IF ok THEN [staging EXCEPT ![job.digest] = "none"] ELSE staging
    /\ job' = None
    /\ UNCHANGED <<caps, content, after, temp, slots, sess, todo>>
    /\ UNCHANGED history

(***************************************************************************)
(* GET, RANGE and HEAD.  GET trusts an indexed body's length; of another   *)
(* it verifies the digest, of another keyed one the header only, which     *)
(* torn bytes may have, and indexes it.  HEAD indexes what it finds.       *)
(***************************************************************************)
Get(d) ==
    /\ Idle
    /\ content[d] = "whole" \/ (content[d] = "torn" /\ d \in slots \cup Keyed)
    /\ served' = content[d]
    /\ slots' = Indexed(d)
    /\ UNCHANGED <<caps, temp, sess, job, todo, acked, retired>>
    /\ UNCHANGED disk

ReadRange(d) ==
    /\ Idle
    /\ content[d] # "none"
    /\ served' = content[d]
    /\ UNCHANGED <<caps, temp, slots, sess, job, todo, acked, retired>>
    /\ UNCHANGED disk

HeadBody(d) ==
    /\ Idle
    /\ content[d] # "none"
    /\ slots' = Indexed(d)
    /\ UNCHANGED <<caps, temp, sess, job, todo>>
    /\ UNCHANGED disk
    /\ UNCHANGED history

(***************************************************************************)
(* DELETE: unlink, then fence the removal; a failed unlink is a success if *)
(* the name is not there.  The slot goes when the body is retired.         *)
(***************************************************************************)
Retired(d) ==
    /\ slots' = slots \ {d}
    /\ retired' = retired \cup {d}
    /\ job' = None

DeleteBegin(d) ==
    /\ Idle
    /\ Hold("delete", d, AnyWid, "unlink")
    /\ acked' = acked \ {d}
    /\ UNCHANGED <<caps, temp, slots, sess, todo, retired, served>>
    /\ UNCHANGED disk

\* Mutant: the removal is not fenced.
DeleteUnlinkUnfenced(ok) ==
    LET d == job.digest
    IN  /\ At("delete", "unlink")
        /\ content' = [content EXCEPT ![d] = "none"]
        /\ after' = [after EXCEPT ![d] = @ \cup {"none"}]
        /\ Goto("probe")
        /\ UNCHANGED <<caps, staging, temp, slots, sess, todo>>
        /\ UNCHANGED history

DeleteUnlink(ok) ==
    LET d == job.digest
    IN  /\ At("delete", "unlink")
        /\ IF ok THEN content[d] # "none" ELSE content[d] = "none" \/ "unlink" \in Faults
        /\ IF ok
           THEN /\ content' = [content EXCEPT ![d] = "none"]
                /\ after' = [after EXCEPT ![d] = @ \cup {"none"}]
                /\ Goto("fence")
           ELSE Goto("probe") /\ UNCHANGED <<content, after>>
        /\ UNCHANGED <<caps, staging, temp, slots, sess, todo>>
        /\ UNCHANGED history

DeleteFence(ok) ==
    LET d == job.digest
    IN  /\ At("delete", "fence")
        /\ IF ok THEN "fsync_name" \in caps
                 ELSE "fsync_name" \notin caps \/ "name" \in Faults
        /\ IF ok
           THEN after' = [after EXCEPT ![d] = {"none"}] /\ Retired(d)
           ELSE job' = None /\ UNCHANGED <<after, slots, retired>>
        /\ UNCHANGED <<caps, content, staging, temp, sess, todo, acked, served>>

DeleteProbe ==
    LET d == job.digest
    IN  /\ At("delete", "probe")
        /\ IF content[d] = "none" THEN Retired(d)
           ELSE job' = None /\ UNCHANGED <<slots, retired>>
        /\ UNCHANGED <<caps, temp, sess, todo, acked, served>>
        /\ UNCHANGED disk

(***************************************************************************)
(* SCAN from the start sweeps the directory: dead temporaries and staging  *)
(* files go, bodies not indexed are indexed until the index is full.       *)
(***************************************************************************)
Entries ==
    {[kind |-> "body", of |-> d] : d \in {e \in Digest : content[e] # "none"}}
      \cup {[kind |-> "pub", of |-> d] : d \in {e \in Digest : staging[e] # "none"}}
      \cup {[kind |-> "wip", of |-> w] : w \in {v \in Wid : temp[v] # "none"}}

\* A later page, or a directory that cannot be read, sweeps nothing.
ScanBegin(sweep) ==
    /\ Idle
    /\ Hold("scan", CHOOSE d \in Digest : TRUE, AnyWid, "sweep")
    /\ todo' = IF sweep THEN Entries ELSE {}
    /\ UNCHANGED <<caps, temp, slots, sess>>
    /\ UNCHANGED disk
    /\ UNCHANGED history

\* Mutant: a full index holds the sweep.
ScanBodyHeld(d) ==
    /\ At("scan", "sweep")
    /\ [kind |-> "body", of |-> d] \in todo
    /\ slots' = Indexed(d)
    /\ todo' = IF d \in slots' THEN todo \ {[kind |-> "body", of |-> d]} ELSE todo
    /\ UNCHANGED <<caps, temp, sess, job>>
    /\ UNCHANGED disk
    /\ UNCHANGED history

ScanBody(d) ==
    /\ At("scan", "sweep")
    /\ [kind |-> "body", of |-> d] \in todo
    /\ slots' = IF content[d] # "none" THEN Indexed(d) ELSE slots
    /\ todo' = IF d \in slots' \/ content[d] = "none"
               THEN todo \ {[kind |-> "body", of |-> d]} ELSE {}
    /\ UNCHANGED <<caps, temp, sess, job>>
    /\ UNCHANGED disk
    /\ UNCHANGED history

ScanStaging(d, ok) ==
    /\ At("scan", "sweep")
    /\ [kind |-> "pub", of |-> d] \in todo
    /\ Failing("unlink", ok)
    /\ todo' = todo \ {[kind |-> "pub", of |-> d]}
    /\ staging' = IF ok THEN [staging EXCEPT ![d] = "none"] ELSE staging
    /\ UNCHANGED <<caps, content, after, temp, slots, sess, job>>
    /\ UNCHANGED history

ScanTemp(w, ok) ==
    /\ At("scan", "sweep")
    /\ [kind |-> "wip", of |-> w] \in todo
    /\ Failing("unlink", ok)
    /\ todo' = todo \ {[kind |-> "wip", of |-> w]}
    /\ temp' = IF ok /\ ~sess[w].open /\ ~sess[w].owed
               THEN [temp EXCEPT ![w] = "none"] ELSE temp
    /\ UNCHANGED <<caps, slots, sess, job>>
    /\ UNCHANGED disk
    /\ UNCHANGED history

ScanPage ==
    /\ At("scan", "sweep")
    /\ todo = {}
    /\ job' = None
    /\ UNCHANGED <<caps, temp, slots, sess, todo>>
    /\ UNCHANGED disk
    /\ UNCHANGED history

(***************************************************************************)
(* Streamed writes.  A session's end owes the removal of its temporary,    *)
(* asked at once and again on every step until it is decided; the id is    *)
(* not used meanwhile.  A temporary left behind is stale: WOPEN removes    *)
(* it, and does not look whether that worked.                              *)
(***************************************************************************)
Left(w) == IF temp[w] = "none" THEN "none" ELSE "stale"

\* session_cleanup.
EndSession(w) ==
    \E gone, owed \in BOOLEAN :
        /\ owed => ~gone
        /\ ~gone /\ ~owed => "unlink" \in Faults
        /\ sess' = [sess EXCEPT ![w].open = FALSE, ![w].owed = owed]
        /\ temp' = [temp EXCEPT ![w] = IF gone THEN "none" ELSE Left(w)]

Retire(w, ok) ==
    /\ sess[w].owed
    /\ Failing("unlink", ok)
    /\ sess' = [sess EXCEPT ![w].owed = FALSE]
    /\ temp' = IF ok THEN [temp EXCEPT ![w] = "none"] ELSE temp
    /\ UNCHANGED <<caps, slots, job, todo>>
    /\ UNCHANGED disk
    /\ UNCHANGED history

\* reap_stale_sessions: at any time, as ticks are not kept, but not the session
\* of the commit held.
Reap(w) ==
    /\ sess[w].open
    /\ ~(job # None /\ job.op = "wcommit" /\ job.wid = w)
    /\ EndSession(w)
    /\ UNCHANGED <<caps, slots, job, todo>>
    /\ UNCHANGED disk
    /\ UNCHANGED history

\* Mutant: an id is free as soon as its session ends.
FreeEarly(w) == ~sess[w].open

FreeWid(w) == ~sess[w].open /\ ~sess[w].owed

WopenBegin(d, w) ==
    /\ Idle
    /\ d \notin Keyed
    /\ FreeWid(w)
    /\ Hold("wopen", d, w, "clear")
    /\ UNCHANGED <<caps, temp, slots, sess, todo>>
    /\ UNCHANGED disk
    /\ UNCHANGED history

WopenClear(ok) ==
    /\ At("wopen", "clear")
    /\ Failing("unlink", ok)
    /\ temp' = IF ok THEN [temp EXCEPT ![job.wid] = "none"] ELSE temp
    /\ Goto("create")
    /\ UNCHANGED <<caps, slots, sess, todo>>
    /\ UNCHANGED disk
    /\ UNCHANGED history

WopenCreate(ok) ==
    LET w == job.wid
    IN  /\ At("wopen", "create")
        /\ Failing("bytes", ok)
        /\ IF ok
           THEN /\ sess' = [sess EXCEPT ![w] = [@ EXCEPT !.open = TRUE,
                                !.digest = job.digest, !.got = 0, !.good = TRUE]]
                /\ temp' = [temp EXCEPT ![w] = IF @ = "none" THEN "stream" ELSE @]
           ELSE UNCHANGED <<sess, temp>>
        /\ job' = None
        /\ UNCHANGED <<caps, slots, todo>>
        /\ UNCHANGED disk
        /\ UNCHANGED history

\* A chunk of whoever holds this id: of the stream's own next bytes or not.
Wappend(w, right, ok) ==
    /\ Idle
    /\ sess[w].open
    /\ Failing("bytes", ok)
    /\ IF ok /\ sess[w].got < Chunks
       THEN /\ sess' = [sess EXCEPT ![w].got = @ + 1, ![w].good = @ /\ right]
            /\ UNCHANGED temp
       ELSE EndSession(w)
    /\ UNCHANGED <<caps, slots, job, todo>>
    /\ UNCHANGED disk
    /\ UNCHANGED history

Wabort(w) ==
    /\ Idle
    /\ sess[w].open
    /\ EndSession(w)
    /\ UNCHANGED <<caps, slots, job, todo>>
    /\ UNCHANGED disk
    /\ UNCHANGED history

(***************************************************************************)
(* WCOMMIT: every declared byte, hashing to the declared digest, or the    *)
(* session ends.  By rename the temporary itself is published; by name     *)
(* fence its bytes are copied to the content path.                         *)
(***************************************************************************)
\* Mutant: the digest is not compared.
ArrivedAny(w) == sess[w].got = Chunks

Arrived(w) == sess[w].got = Chunks /\ sess[w].good

\* What a session's temporary is as a body: its bytes, if they are the
\* stream's alone; over a longer stale file there is a tail behind them.
Body(w) ==
    IF ~sess[w].good THEN {"torn"}
    ELSE IF temp[w] = "stream" THEN {"whole"} ELSE {"whole", "torn"}

WcommitBegin(w) ==
    /\ Idle
    /\ sess[w].open
    /\ IF Arrived(w)
       THEN /\ Hold("wcommit", sess[w].digest, w, "fence")
            /\ retired' = retired \ {sess[w].digest}
            /\ UNCHANGED <<sess, temp>>
       ELSE EndSession(w) /\ UNCHANGED <<job, retired>>
    /\ UNCHANGED <<caps, slots, todo, acked, served>>
    /\ UNCHANGED disk

\* A refusal ends the session.
WcommitRefused ==
    /\ EndSession(job.wid)
    /\ job' = None

WcommitFence(ok) ==
    /\ At("wcommit", "fence")
    /\ ~ok => "bytes" \in Faults \/ Tier = "unavailable"
    /\ ok => Tier # "unavailable"
    /\ IF ok THEN /\ Goto(IF Tier = "rename" THEN "publish" ELSE "copy")
                  /\ UNCHANGED <<sess, temp>>
             ELSE WcommitRefused
    /\ UNCHANGED <<caps, slots, todo>>
    /\ UNCHANGED disk
    /\ UNCHANGED history

WcommitRename(ok) ==
    LET w == job.wid
    IN  /\ At("wcommit", "publish")
        /\ Failing("rename", ok)
        /\ IF ok
           THEN /\ \E file \in Body(w) : Publish(job.digest, file)
                /\ temp' = [temp EXCEPT ![w] = "none"]
                /\ sess' = [sess EXCEPT ![w].open = FALSE]
                /\ Acknowledge(job.digest)
           ELSE WcommitRefused /\ UNCHANGED <<content, after, slots, acked>>
        /\ UNCHANGED <<caps, staging, todo, retired, served>>

WcommitCopy ==
    /\ At("wcommit", "copy")
    /\ WriteInPlace(job.digest)
    /\ UNCHANGED <<caps, staging, temp, slots, sess, job, todo>>
    /\ UNCHANGED history

WcommitCopied(ok) ==
    /\ At("wcommit", "copy")
    /\ Failing("bytes", ok)
    /\ IF ok THEN FenceInPlace(job.digest) /\ Goto("name") /\ UNCHANGED <<sess, temp>>
             ELSE WcommitRefused /\ UNCHANGED <<content, after>>
    /\ UNCHANGED <<caps, staging, slots, todo>>
    /\ UNCHANGED history

WcommitName(ok) ==
    /\ At("wcommit", "name")
    /\ Failing("name", ok)
    /\ EndSession(job.wid)
    /\ IF ok THEN Publish(job.digest, content[job.digest]) /\ Acknowledge(job.digest)
             ELSE job' = None /\ UNCHANGED <<content, after, slots, acked>>
    /\ UNCHANGED <<caps, staging, todo, retired, served>>

(***************************************************************************)
(* A crash: memory goes, and each file is one of what it may be.  A call   *)
(* asked and not decided may have been carried out.                        *)
(***************************************************************************)
Undecided(d) ==
    IF job = None THEN {}
    ELSE IF job.digest # d THEN {}
    ELSE IF At("put", "publish") /\ Tier = "rename" THEN {staging[d]}
    ELSE IF At("wcommit", "publish") THEN Body(job.wid)
    ELSE IF \/ At("delete", "unlink")
            \/ At("put", "clear") /\ Tier = "namefence" THEN {"none"}
    ELSE {}

Crash ==
    /\ content' \in {c \in [Digest -> File] :
                       \A d \in Digest : c[d] \in after[d] \cup Undecided(d)}
    /\ after' = [d \in Digest |-> {content'[d]}]
    /\ staging' \in {f \in [Digest -> {"none", "torn"}] :
                       \A d \in Digest : staging[d] = "none" => f[d] = "none"}
    /\ temp' \in {f \in [Wid -> {"none", "stale"}] :
                       \A w \in Wid : temp[w] = "none" => f[w] = "none"}
    /\ slots' = {}
    /\ sess' = [w \in Wid |-> Closed]
    /\ job' = None
    /\ todo' = {}
    /\ UNCHANGED caps
    /\ UNCHANGED history

Request ==
    \/ \E d \in Digest :
          \/ PutIndexed(d) \/ PutBegin(d) \/ Get(d) \/ ReadRange(d) \/ HeadBody(d)
          \/ DeleteBegin(d)
          \/ \E w \in Wid : WopenBegin(d, w)
    \/ \E sweep \in BOOLEAN : ScanBegin(sweep)
    \/ \E w \in Wid :
          \/ \E right, ok \in BOOLEAN : Wappend(w, right, ok)
          \/ WcommitBegin(w)
          \/ Wabort(w)

\* The phases of the request held.
Poll ==
    \/ PutWrite \/ DeleteProbe \/ ScanPage \/ WcommitCopy
    \/ \E d \in Digest : ScanBody(d)
    \/ \E ok \in BOOLEAN :
          \/ PutClear(ok) \/ PutFence(ok) \/ PutPublish(ok) \/ PutDiscard(ok)
          \/ DeleteUnlink(ok) \/ DeleteFence(ok)
          \/ \E d \in Digest : ScanStaging(d, ok)
          \/ \E w \in Wid : ScanTemp(w, ok)
          \/ WopenClear(ok) \/ WopenCreate(ok)
          \/ WcommitFence(ok) \/ WcommitRename(ok) \/ WcommitCopied(ok)
          \/ WcommitName(ok)

Next ==
    \/ Request
    \/ Poll
    \/ \E w \in Wid : Reap(w)
    \/ \E w \in Wid, ok \in BOOLEAN : Retire(w, ok)
    \/ Crash

\* The kernel steps the module again and again, each step asks for every owed
\* removal and polls the request held, and the provider decides in the end.
Fairness ==
    WF_vars(Poll) /\ \A w \in Wid : WF_vars(\E ok \in BOOLEAN : Retire(w, ok))

Spec == Init /\ [][Next]_vars /\ Fairness

-------------------------------------------------------------------------------
(***************************************************************************)
(* Properties.                                                             *)
(***************************************************************************)

\* A body acknowledged stored is there, whole, and would be after a crash,
\* until its deletion is asked for: whatever was written, scanned, renamed
\* or refused since (poll_blob, handle_wcommit, the idempotent PUT).
AckedStored ==
    \A d \in acked \ Keyed : content[d] = "whole" /\ after[d] = {"whole"}

\* Where the provider renames and fences names: that, also of a keyed blob,
\* which is never absent or half replaced while it is written again; and no
\* GET or RANGE answers bytes that do not hash to the name asked for, indexed
\* or not (poll_blob by rename, handle_get).  In place, a crash may leave a
\* torn file that HEAD or SCAN indexes, and the next PUT takes the index's
\* word for it.
ByRename == caps = {"rename", "fsync_name"}
WholeByRename ==
    ByRename => /\ \A d \in acked : content[d] = "whole" /\ after[d] = {"whole"}
                /\ served # "torn"

\* A body acknowledged deleted does not come back, though a later DELETE of
\* a name already gone fences nothing (DEL_FENCE, DEL_PROBE).
RetiredGone ==
    ByRename => \A d \in retired : content[d] = "none" /\ after[d] = {"none"}

\* The temporary of an open session is not removed under it by the removal
\* an earlier session of its id still owes, or by a sweep (unlink_owed).
TempKept == \A w \in Wid : sess[w].open => temp[w] # "none"

\* A request held is answered, and what is behind it gets its turn; a write id
\* comes back: a removal owed is carried out (module_step_impl, unlink_owed).
RequestDecided ==
    /\ (job # None) ~> (job = None)
    /\ \A w \in Wid : sess[w].owed ~> ~sess[w].owed
===============================================================================
