--------------------------- MODULE BodyStoreProofs ---------------------------
(***************************************************************************)
(* Proofs about body_store, for any number of bodies, keys, write ids and  *)
(* index slots: the state is well typed and the index within its bound, a  *)
(* session's temporary is not removed under it, and, where the provider    *)
(* renames and fences names, what was acknowledged stored stays whole and  *)
(* what was acknowledged deleted stays gone.                               *)
(***************************************************************************)
EXTENDS BodyStore, TLAPS, FiniteSetTheorems

\* The parts of the type invariant, with an index that is finite.
DiskTyped ==
    /\ content \in [Digest -> File]
    /\ after \in [Digest -> (SUBSET File) \ {{}}]
    /\ staging \in [Digest -> File]

SessTyped ==
    /\ temp \in [Wid -> {"none", "stale", "stream"}]
    /\ sess \in [Wid -> Session]

IndexTyped == slots \subseteq Digest /\ IsFiniteSet(slots) /\ Cardinality(slots) <= Slots

JobType == {None} \cup [op : JobOp, digest : Digest, wid : Wid, phase : Phase]

RestTyped ==
    /\ caps \in Providers
    /\ job \in JobType
    /\ todo \subseteq Entry
    /\ acked \subseteq Digest
    /\ retired \subseteq Digest
    /\ served \in File

Typed == DiskTyped /\ SessTyped /\ IndexTyped /\ RestTyped

\* Sessions and their temporaries: no session is open while an earlier one of
\* its id still owes a removal, and an id being opened is free.
Sessions ==
    /\ \A w \in Wid : sess[w].open => ~sess[w].owed /\ temp[w] # "none"
    /\ job.op = "wopen" => FreeWid(job.wid)

\* Deletion, by rename: a crash leaves each file as it is, but for the one whose
\* removal is about to be fenced; what was retired is gone, and a body being
\* written is not retired.
Gone ==
    /\ \A d \in Digest : after[d] = {content[d]} \/ (At("delete", "fence") /\ job.digest = d)
    /\ At("delete", "fence") => content[job.digest] = "none"
    /\ \A d \in retired : content[d] = "none" /\ after[d] = {"none"}
    /\ job.op \in {"put", "wcommit"} => job.digest \notin retired
    /\ job.op = "wcommit" => job.phase \in {"fence", "publish"}

\* Storage, by rename: no content path is ever torn; the index names only bodies
\* that are there, but for the one whose removal is about to be fenced; what was
\* acknowledged stored is whole, and no longer counted once its deletion is asked.
Stored ==
    /\ \A d \in Digest : content[d] # "torn" /\ "torn" \notin after[d]
    /\ \A d \in slots : content[d] = "whole" \/ (At("delete", "fence") /\ job.digest = d)
    /\ \A d \in acked : content[d] = "whole" /\ after[d] = {"whole"}
    /\ job.op = "delete" => job.digest \notin acked

\* What is about to be renamed to a content path is whole: the staging file of a
\* PUT, and the temporary of a session being committed, which the stream wrote
\* alone.
Staged ==
    /\ At("put", "publish") => staging[job.digest] = "whole"
    /\ \A w \in Wid : sess[w].open => temp[w] = "stream"
    /\ At("wopen", "create") => temp[job.wid] = "none"
    /\ job.op = "wcommit" => sess[job.wid].open /\ sess[job.wid].good

Whole == Stored /\ Staged /\ served # "torn"

-------------------------------------------------------------------------------
(***************************************************************************)
(* Type correctness.                                                       *)
(***************************************************************************)

\* A request held has all its fields, and none is held only where job is None.
LEMMA HeldJob ==
    ASSUME job \in JobType, job.op # "none"
    PROVE  /\ job \in [op : JobOp, digest : Digest, wid : Wid, phase : Phase]
           /\ job.op \in JobOp /\ job.digest \in Digest /\ job.wid \in Wid
           /\ job # None
  BY DEF JobType, None

\* Taking a request up fills all its fields.
LEMMA HoldJob ==
    ASSUME NEW op \in JobOp, NEW d \in Digest, NEW w \in Wid, NEW phase \in Phase,
           Hold(op, d, w, phase)
    PROVE  /\ job' \in JobType
           /\ job'.op = op /\ job'.digest = d /\ job'.wid = w /\ job'.phase = phase
  BY DEF Hold, JobType

\* Moving a request to its next phase changes its phase alone.
LEMMA GotoJob ==
    ASSUME job \in JobType, job.op # "none", NEW phase \in Phase, Goto(phase)
    PROVE  /\ job' \in JobType /\ job'.op = job.op /\ job'.digest = job.digest
           /\ job'.wid = job.wid /\ job'.phase = phase
<1>1. job \in [op : JobOp, digest : Digest, wid : Wid, phase : Phase]
  BY HeldJob
<1>2. QED
  BY <1>1 DEF Goto, JobType

\* No request is one of the types of what is held.
LEMMA NoneJob == None \in JobType /\ None.op = "none"
  BY DEF JobType, None

\* Some body and some write id, for a request that names none.
LEMMA AnyName == AnyWid \in Wid /\ (CHOOSE d \in Digest : TRUE) \in Digest
  BY NamesAssumption DEF AnyWid

\* An index a body was offered to keeps its bound (record_slot).
LEMMA IndexedTyped ==
    ASSUME slots \subseteq Digest, IsFiniteSet(slots), Cardinality(slots) <= Slots,
           NEW d \in Digest
    PROVE  /\ Indexed(d) \subseteq Digest /\ IsFiniteSet(Indexed(d))
           /\ Cardinality(Indexed(d)) <= Slots
<1>1. CASE Cardinality(slots) < Slots
  <2>1. Indexed(d) = slots \cup {d}
    BY <1>1 DEF Indexed
  <2>2. /\ IsFiniteSet(slots \cup {d})
        /\ Cardinality(slots \cup {d}) =
              IF d \in slots THEN Cardinality(slots) ELSE Cardinality(slots) + 1
    BY FS_AddElement
  <2>3. Cardinality(slots) \in Nat
    BY FS_CardinalityType
  <2>4. QED
    BY <1>1, <2>1, <2>2, <2>3, SlotsAssumption
<1>2. CASE ~(Cardinality(slots) < Slots)
  BY <1>2 DEF Indexed
<1>3. QED
  BY <1>1, <1>2

\* An index a body was taken from keeps its bound.
LEMMA UnindexedTyped ==
    ASSUME slots \subseteq Digest, IsFiniteSet(slots), Cardinality(slots) <= Slots, NEW d
    PROVE  /\ slots \ {d} \subseteq Digest /\ IsFiniteSet(slots \ {d})
           /\ Cardinality(slots \ {d}) <= Slots
<1>1. /\ IsFiniteSet(slots \ {d})
      /\ Cardinality(slots \ {d}) = IF d \in slots THEN Cardinality(slots) - 1 ELSE Cardinality(slots)
  BY FS_RemoveElement
<1>2. Cardinality(slots) \in Nat
  BY FS_CardinalityType
<1>3. QED
  BY <1>1, <1>2, SlotsAssumption

\* The end of a session closes it and leaves its temporary gone or stale.
LEMMA EndSessionDoes ==
    ASSUME sess \in [Wid -> Session], temp \in [Wid -> {"none", "stale", "stream"}],
           NEW w \in Wid, EndSession(w)
    PROVE  /\ sess' \in [Wid -> Session] /\ temp' \in [Wid -> {"none", "stale", "stream"}]
           /\ ~sess'[w].open
           /\ \A x \in Wid : x # w => sess'[x] = sess[x] /\ temp'[x] = temp[x]
<1>1. PICK gone \in BOOLEAN, owed \in BOOLEAN :
        /\ sess' = [sess EXCEPT ![w].open = FALSE, ![w].owed = owed]
        /\ temp' = [temp EXCEPT ![w] = IF gone THEN "none" ELSE Left(w)]
  BY DEF EndSession
<1>2. Left(w) \in {"none", "stale"}
  BY DEF Left
<1>3. /\ temp' \in [Wid -> {"none", "stale", "stream"}]
      /\ \A x \in Wid : x # w => temp'[x] = temp[x]
  BY <1>1, <1>2
<1>4. sess[w] \in Session
  OBVIOUS
<1>5. sess' = [sess EXCEPT ![w] = [sess[w] EXCEPT !.open = FALSE, !.owed = owed]]
  BY <1>1
<1> DEFINE s == [sess[w] EXCEPT !.open = FALSE, !.owed = owed]
<1>6. s \in Session /\ s.open = FALSE
  BY <1>4 DEF Session
<1> HIDE DEF s
<1>7. sess' \in [Wid -> Session] /\ sess'[w] = s /\ \A x \in Wid : x # w => sess'[x] = sess[x]
  BY <1>5, <1>6 DEF s
<1>8. QED
  BY <1>3, <1>6, <1>7

\* The boot state is well typed.
LEMMA InitTyped == Init => Typed
<1> SUFFICES ASSUME Init PROVE Typed
  OBVIOUS
<1> USE DEF Init
<1>1. DiskTyped
  BY DEF DiskTyped, File
<1>2. Closed \in Session
  BY AnyName, ChunksAssumption DEF Closed, Session
<1>3. SessTyped
  BY <1>2 DEF SessTyped
<1>4. IndexTyped
  BY FS_EmptySet, SlotsAssumption DEF IndexTyped
<1>5. RestTyped
  BY NoneJob DEF RestTyped, File
<1>6. QED
  BY <1>1, <1>3, <1>4, <1>5 DEF Typed

\* The files keep their types: PUT, DELETE, SCAN, WCOMMIT and a crash are all
\* that change them.
LEMMA NextDisk ==
    ASSUME Typed, Next
    PROVE  DiskTyped'
<1> USE DEF Typed
<1>1. ASSUME job.op # "none" PROVE job.digest \in Digest /\ job.wid \in Wid
  BY <1>1, HeldJob DEF RestTyped
<1>2. {"none", "torn", "whole"} = File
  BY DEF File
<1>3. ASSUME NEW d \in Digest, WriteInPlace(d) \/ FenceInPlace(d) \/ \E f \in File : Publish(d, f)
      PROVE  content' \in [Digest -> File] /\ after' \in [Digest -> (SUBSET File) \ {{}}]
  BY <1>2, <1>3 DEF DiskTyped, WriteInPlace, FenceInPlace, Publish
<1>4. CASE UNCHANGED disk
  BY <1>4 DEF disk, DiskTyped
<1>5. ASSUME NEW ok \in BOOLEAN, PutClear(ok) PROVE DiskTyped'
  <2>1. job.digest \in Digest
    BY <1>1, <1>5 DEF PutClear, At
  <2>2. QED
    BY <1>2, <1>5, <2>1 DEF PutClear, DiskTyped, disk
<1>6. ASSUME PutWrite PROVE DiskTyped'
  <2>1. job.digest \in Digest
    BY <1>1, <1>6 DEF PutWrite, At
  <2>2. CASE Tier = "rename"
    BY <1>2, <1>6, <2>1, <2>2 DEF PutWrite, DiskTyped
  <2>3. CASE Tier # "rename"
    BY <1>3, <1>6, <2>1, <2>3 DEF PutWrite, DiskTyped
  <2>4. QED
    BY <2>2, <2>3
<1>7. ASSUME NEW ok \in BOOLEAN, PutFence(ok) PROVE DiskTyped'
  <2>1. job.digest \in Digest
    BY <1>1, <1>7 DEF PutFence, At
  <2>2. CASE ~ok
    BY <1>4, <1>7, <2>2 DEF PutFence
  <2>3. CASE ok /\ Tier = "rename"
    BY <1>2, <1>7, <2>1, <2>3 DEF PutFence, DiskTyped
  <2>4. CASE ok /\ Tier # "rename"
    BY <1>3, <1>7, <2>1, <2>4 DEF PutFence, DiskTyped
  <2>5. QED
    BY <2>2, <2>3, <2>4
<1>8. ASSUME NEW ok \in BOOLEAN, PutPublish(ok) PROVE DiskTyped'
  <2>1. job.digest \in Digest /\ content[job.digest] \in File /\ staging[job.digest] \in File
    BY <1>1, <1>8 DEF PutPublish, At, DiskTyped
  <2>2. CASE ~ok
    BY <1>8, <2>2 DEF PutPublish, DiskTyped
  <2>3. CASE ok
    <3>1. content' \in [Digest -> File] /\ after' \in [Digest -> (SUBSET File) \ {{}}]
      BY <1>3, <1>8, <2>1, <2>3 DEF PutPublish
    <3>2. staging' \in [Digest -> File]
      BY <1>2, <1>8, <2>1, <2>3 DEF PutPublish, DiskTyped
    <3>3. QED
      BY <3>1, <3>2 DEF DiskTyped
  <2>4. QED
    BY <2>2, <2>3
<1>9. ASSUME NEW ok \in BOOLEAN, PutDiscard(ok) PROVE DiskTyped'
  BY <1>1, <1>2, <1>9 DEF PutDiscard, DiskTyped, At
<1>10. ASSUME NEW ok \in BOOLEAN, DeleteUnlink(ok) PROVE DiskTyped'
  <2>1. job.digest \in Digest
    BY <1>1, <1>10 DEF DeleteUnlink, At
  <2>2. QED
    BY <1>2, <1>10, <2>1 DEF DeleteUnlink, DiskTyped
<1>11. ASSUME NEW ok \in BOOLEAN, DeleteFence(ok) PROVE DiskTyped'
  <2>1. job.digest \in Digest
    BY <1>1, <1>11 DEF DeleteFence, At
  <2>2. QED
    BY <1>2, <1>11, <2>1 DEF DeleteFence, DiskTyped
<1>12. ASSUME NEW d \in Digest, NEW ok \in BOOLEAN, ScanStaging(d, ok) PROVE DiskTyped'
  BY <1>2, <1>12 DEF ScanStaging, DiskTyped
<1>13. ASSUME NEW ok \in BOOLEAN, WcommitRename(ok) PROVE DiskTyped'
  <2>1. job.digest \in Digest
    BY <1>1, <1>13 DEF WcommitRename, At
  <2>2. CASE ok
    <3>1. PICK f \in Body(job.wid) : Publish(job.digest, f)
      BY <1>13, <2>2 DEF WcommitRename
    <3>2. f \in File
      BY <1>2, <3>1 DEF Body
    <3>3. QED
      BY <1>3, <1>13, <2>1, <3>1, <3>2 DEF WcommitRename, DiskTyped
  <2>3. CASE ~ok
    BY <1>13, <2>3 DEF WcommitRename, DiskTyped
  <2>4. QED
    BY <2>2, <2>3
<1>14. ASSUME WcommitCopy PROVE DiskTyped'
  BY <1>1, <1>3, <1>14 DEF WcommitCopy, At, DiskTyped
<1>15. ASSUME NEW ok \in BOOLEAN, WcommitCopied(ok) PROVE DiskTyped'
  <2>1. job.digest \in Digest
    BY <1>1, <1>15 DEF WcommitCopied, At
  <2>2. CASE ok
    BY <1>3, <1>15, <2>1, <2>2 DEF WcommitCopied, DiskTyped
  <2>3. CASE ~ok
    BY <1>15, <2>3 DEF WcommitCopied, DiskTyped
  <2>4. QED
    BY <2>2, <2>3
<1>16. ASSUME NEW ok \in BOOLEAN, WcommitName(ok) PROVE DiskTyped'
  <2>1. job.digest \in Digest /\ content[job.digest] \in File
    BY <1>1, <1>16 DEF WcommitName, At, DiskTyped
  <2>2. QED
    BY <1>3, <1>16, <2>1 DEF WcommitName, DiskTyped
<1>17. ASSUME Crash PROVE DiskTyped'
  BY <1>2, <1>17 DEF Crash, DiskTyped
<1>18. ASSUME Request PROVE DiskTyped'
  BY <1>4, <1>18 DEF Request, PutIndexed, PutBegin, Get, ReadRange, HeadBody, DeleteBegin, WopenBegin,
                     ScanBegin, Wappend, WcommitBegin, Wabort
<1>19. ASSUME Poll PROVE DiskTyped'
  <2>1. \/ PutWrite \/ WcommitCopy \/ UNCHANGED disk
        \/ \E ok \in BOOLEAN :
              \/ PutClear(ok) \/ PutFence(ok) \/ PutPublish(ok) \/ PutDiscard(ok)
              \/ DeleteUnlink(ok) \/ DeleteFence(ok)
              \/ \E d \in Digest : ScanStaging(d, ok)
              \/ WcommitRename(ok) \/ WcommitCopied(ok) \/ WcommitName(ok)
    BY <1>19 DEF Poll, DeleteProbe, ScanPage, ScanBody, ScanTemp, WopenClear, WopenCreate,
                 WcommitFence
  <2>2. QED
    BY <1>4, <1>5, <1>6, <1>7, <1>8, <1>9, <1>10, <1>11, <1>12, <1>13, <1>14, <1>15, <1>16, <2>1
<1>20. ASSUME NEW w \in Wid, NEW ok \in BOOLEAN, Reap(w) \/ Retire(w, ok) PROVE DiskTyped'
  BY <1>4, <1>20 DEF Reap, Retire
<1>21. QED
  BY <1>17, <1>18, <1>19, <1>20 DEF Next

\* What a step may leave of an open session: it was open and is as it was, owing
\* nothing, its temporary untouched; or WOPEN has just opened it.
Kept(w) ==
    sess'[w].open =>
        /\ ~sess'[w].owed
        /\ \/ /\ sess[w].open
              /\ temp'[w] = temp[w]
           \/ /\ At("wopen", "create") /\ job.wid = w /\ job' = None
              /\ sess'[w].good
              /\ temp'[w] = IF temp[w] = "none" THEN "stream" ELSE temp[w]

\* A step that ends a session, if any, leaves the others as they were.
LEMMA EndKept ==
    ASSUME SessTyped, Sessions, NEW w \in Wid, EndSession(w)
    PROVE  SessTyped' /\ \A x \in Wid : Kept(x)
<1>1. /\ sess' \in [Wid -> Session] /\ temp' \in [Wid -> {"none", "stale", "stream"}]
      /\ ~sess'[w].open
      /\ \A x \in Wid : x # w => sess'[x] = sess[x] /\ temp'[x] = temp[x]
  BY EndSessionDoes DEF SessTyped
<1>2. QED
  BY <1>1 DEF SessTyped, Sessions, Kept

\* The sessions and their temporaries keep their types, and no step disturbs a
\* session it leaves open.
LEMMA NextSess ==
    ASSUME Typed, Sessions, Next
    PROVE  SessTyped' /\ \A x \in Wid : Kept(x)
<1> DEFINE Goal == SessTyped' /\ \A x \in Wid : Kept(x)
<1> USE DEF Typed
<1>1. ASSUME job.op # "none" PROVE job.digest \in Digest /\ job.wid \in Wid
  BY <1>1, HeldJob DEF RestTyped
<1>2. CASE UNCHANGED <<sess, temp>>
  BY <1>2 DEF SessTyped, Sessions, Kept
<1>3. CASE \E w \in Wid : EndSession(w)
  BY <1>3, EndKept
<1>4. ASSUME NEW w \in Wid, NEW ok \in BOOLEAN, Retire(w, ok) PROVE Goal
  <2>1. sess[w] \in Session /\ sess[w].owed /\ ~sess[w].open
    BY <1>4 DEF Retire, SessTyped, Sessions
  <2>2. [sess[w] EXCEPT !.owed = FALSE] \in Session /\ ~[sess[w] EXCEPT !.owed = FALSE].open
    BY <2>1 DEF Session
  <2>3. sess' = [sess EXCEPT ![w] = [sess[w] EXCEPT !.owed = FALSE]]
    BY <1>4 DEF Retire
  <2>4. /\ sess' \in [Wid -> Session] /\ ~sess'[w].open
        /\ \A x \in Wid : x # w => sess'[x] = sess[x]
    BY <2>2, <2>3 DEF SessTyped
  <2>5. /\ temp' \in [Wid -> {"none", "stale", "stream"}]
        /\ \A x \in Wid : x # w => temp'[x] = temp[x]
    BY <1>4 DEF Retire, SessTyped
  <2>6. QED
    BY <2>4, <2>5 DEF SessTyped, Sessions, Kept
<1>5. ASSUME NEW w \in Wid, NEW ok \in BOOLEAN, ScanTemp(w, ok) PROVE Goal
  <2>1. /\ sess' = sess
        /\ temp' \in [Wid -> {"none", "stale", "stream"}]
        /\ \A x \in Wid : sess[x].open => temp'[x] = temp[x]
    BY <1>5 DEF ScanTemp, SessTyped
  <2>2. QED
    BY <2>1 DEF SessTyped, Sessions, Kept
<1>6. ASSUME NEW ok \in BOOLEAN, WopenClear(ok) PROVE Goal
  <2>1. job.wid \in Wid /\ ~sess[job.wid].open
    BY <1>1, <1>6 DEF WopenClear, At, Sessions, FreeWid
  <2>2. /\ sess' = sess
        /\ temp' \in [Wid -> {"none", "stale", "stream"}]
        /\ \A x \in Wid : sess[x].open => temp'[x] = temp[x]
    BY <1>6, <2>1 DEF WopenClear, SessTyped
  <2>3. QED
    BY <2>2 DEF SessTyped, Sessions, Kept
<1>7. ASSUME WopenCreate(TRUE) PROVE Goal
  <2> DEFINE w == job.wid
             s == [sess[w] EXCEPT !.open = TRUE, !.digest = job.digest, !.got = 0, !.good = TRUE]
  <2>1. w \in Wid /\ job.digest \in Digest /\ sess[w] \in Session /\ ~sess[w].owed
    BY <1>1, <1>7 DEF WopenCreate, At, Sessions, FreeWid, SessTyped
  <2>2. s \in Session /\ s.good /\ ~s.owed
    <3>1. 0 \in 0..Chunks
      BY ChunksAssumption
    <3>2. QED
      BY <2>1, <3>1 DEF Session
  <2>3. /\ sess' = [sess EXCEPT ![w] = s]
        /\ temp' = [temp EXCEPT ![w] = IF temp[w] = "none" THEN "stream" ELSE temp[w]]
        /\ job' = None /\ At("wopen", "create")
    BY <1>7 DEF WopenCreate
  <2> HIDE DEF s
  <2>4. /\ sess' \in [Wid -> Session] /\ sess'[w] = s
        /\ \A x \in Wid : x # w => sess'[x] = sess[x]
    BY <2>1, <2>2, <2>3 DEF SessTyped
  <2>5. /\ temp' \in [Wid -> {"none", "stale", "stream"}]
        /\ temp'[w] = IF temp[w] = "none" THEN "stream" ELSE temp[w]
        /\ \A x \in Wid : x # w => temp'[x] = temp[x]
    BY <2>1, <2>3 DEF SessTyped
  <2>6. Kept(w)
    BY <2>2, <2>3, <2>4, <2>5 DEF Kept
  <2>7. \A x \in Wid : x # w => Kept(x)
    BY <2>4, <2>5 DEF Kept, Sessions
  <2>8. QED
    BY <2>4, <2>5, <2>6, <2>7 DEF SessTyped
<1>8. ASSUME NEW w \in Wid, NEW right \in BOOLEAN, NEW ok \in BOOLEAN, Wappend(w, right, ok)
      PROVE  Goal
  <2>1. CASE ok /\ sess[w].got < Chunks
    <3> DEFINE s == [sess[w] EXCEPT !.got = @ + 1, !.good = @ /\ right]
    <3>1. sess[w] \in Session /\ sess[w].open /\ ~sess[w].owed
      BY <1>8 DEF Wappend, SessTyped, Sessions
    <3>2. sess[w].got + 1 \in 0..Chunks
      BY <2>1, <3>1, ChunksAssumption DEF Session
    <3>3. s \in Session /\ s.open = sess[w].open /\ s.owed = sess[w].owed
      BY <3>1, <3>2 DEF Session
    <3>4. sess' = [sess EXCEPT ![w] = s] /\ temp' = temp
      BY <1>8, <2>1 DEF Wappend
    <3> HIDE DEF s
    <3>5. /\ sess' \in [Wid -> Session] /\ sess'[w] = s
          /\ \A x \in Wid : x # w => sess'[x] = sess[x]
      BY <3>3, <3>4 DEF SessTyped
    <3>6. QED
      BY <3>1, <3>3, <3>4, <3>5 DEF SessTyped, Sessions, Kept
  <2>2. CASE ~(ok /\ sess[w].got < Chunks)
    BY <1>3, <1>8, <2>2 DEF Wappend
  <2>3. QED
    BY <2>1, <2>2
<1>9. ASSUME WcommitRename(TRUE) PROVE Goal
  <2> DEFINE w == job.wid
  <2>1. w \in Wid /\ sess[w] \in Session
    BY <1>1, <1>9 DEF WcommitRename, At, SessTyped
  <2>2. [sess[w] EXCEPT !.open = FALSE] \in Session /\ ~[sess[w] EXCEPT !.open = FALSE].open
    BY <2>1 DEF Session
  <2>3. /\ sess' = [sess EXCEPT ![w] = [sess[w] EXCEPT !.open = FALSE]]
        /\ temp' = [temp EXCEPT ![w] = "none"]
    BY <1>9 DEF WcommitRename
  <2>4. /\ sess' \in [Wid -> Session] /\ ~sess'[w].open
        /\ \A x \in Wid : x # w => sess'[x] = sess[x]
    BY <2>1, <2>2, <2>3 DEF SessTyped
  <2>5. /\ temp' \in [Wid -> {"none", "stale", "stream"}]
        /\ \A x \in Wid : x # w => temp'[x] = temp[x]
    BY <2>3 DEF SessTyped
  <2>6. QED
    BY <2>4, <2>5 DEF SessTyped, Sessions, Kept
<1>10. ASSUME Crash PROVE Goal
  <2>1. Closed \in Session /\ ~Closed.open
    BY AnyName, ChunksAssumption DEF Closed, Session
  <2>2. sess' \in [Wid -> Session] /\ \A x \in Wid : ~sess'[x].open
    BY <1>10, <2>1 DEF Crash
  <2>3. temp' \in [Wid -> {"none", "stale", "stream"}]
    BY <1>10 DEF Crash
  <2>4. QED
    BY <2>2, <2>3 DEF SessTyped, Kept
<1>11. ASSUME Request PROVE Goal
  <2>1. \/ UNCHANGED <<sess, temp>> \/ \E w \in Wid : EndSession(w)
        \/ \E w \in Wid, right, ok \in BOOLEAN : Wappend(w, right, ok)
    <3>1. CASE \E d \in Digest : \/ PutIndexed(d) \/ PutBegin(d) \/ Get(d) \/ ReadRange(d) \/ HeadBody(d)
                                 \/ DeleteBegin(d) \/ \E w \in Wid : WopenBegin(d, w)
      BY <3>1 DEF PutIndexed, PutBegin, Get, ReadRange, HeadBody, DeleteBegin, WopenBegin
    <3>2. CASE \E sweep \in BOOLEAN : ScanBegin(sweep)
      BY <3>2 DEF ScanBegin
    <3>3. CASE \E w \in Wid : WcommitBegin(w) \/ Wabort(w)
      BY <3>3 DEF WcommitBegin, Wabort
    <3>4. QED
      BY <1>11, <3>1, <3>2, <3>3 DEF Request
  <2>2. QED
    BY <1>2, <1>3, <1>8, <2>1
<1>12. ASSUME Poll PROVE Goal
  <2>1. ASSUME NEW ok \in BOOLEAN,
               WcommitFence(ok) \/ WcommitRename(ok) \/ WcommitCopied(ok) \/ WcommitName(ok)
        PROVE  \/ UNCHANGED <<sess, temp>> \/ \E w \in Wid : EndSession(w)
               \/ WcommitRename(TRUE)
    <3>1. job.wid \in Wid
      BY <1>1, <2>1 DEF WcommitFence, WcommitRename, WcommitCopied, WcommitName, At
    <3>2. QED
      BY <2>1, <3>1 DEF WcommitFence, WcommitRename, WcommitCopied, WcommitName, WcommitRefused
  <2>2. ASSUME NEW ok \in BOOLEAN, WopenCreate(ok)
        PROVE  UNCHANGED <<sess, temp>> \/ WopenCreate(TRUE)
    BY <2>2 DEF WopenCreate
  <2>3. \/ UNCHANGED <<sess, temp>> \/ \E w \in Wid : EndSession(w)
        \/ WcommitRename(TRUE) \/ WopenCreate(TRUE)
        \/ \E ok \in BOOLEAN : WopenClear(ok) \/ \E w \in Wid : ScanTemp(w, ok)
    BY <1>12, <2>1, <2>2
       DEF Poll, PutWrite, DeleteProbe, ScanPage, WcommitCopy, ScanBody, PutClear, PutFence,
           PutPublish, PutDiscard, DeleteUnlink, DeleteFence, ScanStaging
  <2>4. QED
    BY <1>2, <1>3, <1>5, <1>6, <1>7, <1>9, <2>3
<1>13. ASSUME NEW w \in Wid, Reap(w) PROVE Goal
  BY <1>3, <1>13 DEF Reap
<1>14. QED
  BY <1>4, <1>10, <1>11, <1>12, <1>13 DEF Next

\* The index keeps its bound, whoever adds to it: PUT, GET, HEAD, SCAN, WCOMMIT.
LEMMA NextIndex ==
    ASSUME Typed, Next
    PROVE  IndexTyped'
<1> USE DEF Typed
<1>1. ASSUME job.op # "none" PROVE job.digest \in Digest
  BY <1>1, HeldJob DEF RestTyped
<1>2. CASE slots' = slots
  BY <1>2 DEF IndexTyped
<1>3. ASSUME NEW d \in Digest, slots' = Indexed(d) PROVE IndexTyped'
  BY <1>3, IndexedTyped DEF IndexTyped
<1>4. ASSUME NEW d \in Digest, slots' = slots \ {d} PROVE IndexTyped'
  BY <1>4, UnindexedTyped DEF IndexTyped
<1>5. CASE Crash
  BY <1>5, FS_EmptySet, SlotsAssumption DEF Crash, IndexTyped
<1>6. CASE Request
  <2>1. slots' = slots \/ \E d \in Digest : slots' = Indexed(d)
    BY <1>6 DEF Request, PutIndexed, PutBegin, Get, ReadRange, HeadBody, DeleteBegin, WopenBegin,
                ScanBegin, Wappend, WcommitBegin, Wabort
  <2>2. QED
    BY <1>2, <1>3, <2>1
<1>7. CASE Poll
  <2>1. ASSUME NEW ok \in BOOLEAN, PutPublish(ok) \/ WcommitRename(ok) \/ WcommitName(ok)
        PROVE  IndexTyped'
    <3>1. job.digest \in Digest
      BY <1>1, <2>1 DEF PutPublish, WcommitRename, WcommitName, At
    <3>2. slots' = slots \/ slots' = Indexed(job.digest)
      BY <2>1 DEF PutPublish, WcommitRename, WcommitName, Acknowledge
    <3>3. QED
      BY <1>2, <1>3, <3>1, <3>2
  <2>2. ASSUME NEW ok \in BOOLEAN, DeleteFence(ok) \/ DeleteProbe PROVE IndexTyped'
    <3>1. job.digest \in Digest
      BY <1>1, <2>2 DEF DeleteFence, DeleteProbe, At
    <3>2. slots' = slots \/ slots' = slots \ {job.digest}
      BY <2>2 DEF DeleteFence, DeleteProbe, Retired
    <3>3. QED
      BY <1>2, <1>4, <3>1, <3>2
  <2>3. ASSUME NEW d \in Digest, ScanBody(d) PROVE IndexTyped'
    BY <1>2, <1>3, <2>3 DEF ScanBody
  <2>4. \/ slots' = slots \/ DeleteProbe \/ \E d \in Digest : ScanBody(d)
        \/ \E ok \in BOOLEAN : \/ PutPublish(ok) \/ WcommitRename(ok) \/ WcommitName(ok)
                               \/ DeleteFence(ok)
    BY <1>7 DEF Poll, PutWrite, ScanPage, WcommitCopy, PutClear, PutFence, PutDiscard,
                DeleteUnlink, ScanStaging, ScanTemp, WopenClear, WopenCreate, WcommitFence,
                WcommitCopied
  <2>5. QED
    BY <1>2, <2>1, <2>2, <2>3, <2>4
<1>8. CASE \E w \in Wid, ok \in BOOLEAN : Reap(w) \/ Retire(w, ok)
  BY <1>2, <1>8 DEF Reap, Retire
<1>9. QED
  BY <1>5, <1>6, <1>7, <1>8 DEF Next

\* The request held keeps its type: it is taken up, moved on, answered or kept.
LEMMA NextJob ==
    ASSUME Typed, Next
    PROVE  job' \in JobType
<1> USE DEF Typed
<1>1. job \in JobType
  BY DEF RestTyped
<1>2. CASE job' \in {job, None}
  BY <1>1, <1>2, NoneJob
<1>3. ASSUME job.op # "none", NEW phase \in Phase, Goto(phase) PROVE job' \in JobType
  BY <1>1, <1>3, GotoJob
<1>4. CASE \E op \in JobOp, d \in Digest, w \in Wid, phase \in Phase : Hold(op, d, w, phase)
  BY <1>4, HoldJob
<1>5. CASE Request
  <2>1. ASSUME NEW d \in Digest, NEW w \in Wid,
               \/ PutIndexed(d) \/ PutBegin(d) \/ Get(d) \/ ReadRange(d) \/ HeadBody(d)
               \/ DeleteBegin(d) \/ WopenBegin(d, w)
        PROVE  job' \in JobType
    BY <1>2, <1>4, <2>1, AnyName
       DEF PutIndexed, PutBegin, Get, ReadRange, HeadBody, DeleteBegin, WopenBegin, JobOp, Phase
  <2>2. ASSUME NEW sweep \in BOOLEAN, ScanBegin(sweep) PROVE job' \in JobType
    BY <1>4, <2>2, AnyName DEF ScanBegin, JobOp, Phase
  <2>3. ASSUME NEW w \in Wid, WcommitBegin(w) PROVE job' \in JobType
    <3>1. sess[w].digest \in Digest
      BY DEF SessTyped, Session
    <3>2. QED
      BY <1>2, <1>4, <2>3, <3>1 DEF WcommitBegin, JobOp, Phase
  <2>4. ASSUME NEW w \in Wid, NEW right \in BOOLEAN, NEW ok \in BOOLEAN,
               Wappend(w, right, ok) \/ Wabort(w)
        PROVE  job' \in JobType
    BY <1>2, <2>4 DEF Wappend, Wabort
  <2>5. QED
    BY <1>5, <2>1, <2>2, <2>3, <2>4, NamesAssumption DEF Request
<1>6. CASE Poll
  <2>1. \/ job' \in {job, None}
        \/ job.op # "none" /\ \E phase \in Phase : Goto(phase)
    <3>1. ASSUME NEW ok \in BOOLEAN,
                 \/ PutClear(ok) \/ PutFence(ok) \/ PutPublish(ok) \/ PutDiscard(ok)
                 \/ DeleteUnlink(ok) \/ DeleteFence(ok)
          PROVE  \/ job' \in {job, None}
                 \/ job.op # "none" /\ \E phase \in Phase : Goto(phase)
      BY <3>1 DEF PutClear, PutFence, PutPublish, PutDiscard, DeleteUnlink, DeleteFence, At,
                  Acknowledge, Retired, Phase
    <3>2. ASSUME NEW ok \in BOOLEAN,
                 \/ WopenClear(ok) \/ WopenCreate(ok) \/ WcommitFence(ok)
                 \/ WcommitRename(ok) \/ WcommitCopied(ok) \/ WcommitName(ok)
          PROVE  \/ job' \in {job, None}
                 \/ job.op # "none" /\ \E phase \in Phase : Goto(phase)
      BY <3>2 DEF WopenClear, WopenCreate, WcommitFence, WcommitRename, WcommitCopied,
                  WcommitName, WcommitRefused, Acknowledge, At, Phase
    <3>3. QED
      BY <1>6, <3>1, <3>2
         DEF Poll, PutWrite, DeleteProbe, ScanPage, WcommitCopy, ScanBody, ScanStaging, ScanTemp,
             Retired
  <2>2. QED
    BY <1>2, <1>3, <2>1
<1>7. CASE Crash \/ \E w \in Wid, ok \in BOOLEAN : Reap(w) \/ Retire(w, ok)
  BY <1>2, <1>7 DEF Crash, Reap, Retire
<1>8. QED
  BY <1>5, <1>6, <1>7 DEF Next

\* The sweep's list names files that may be there.
LEMMA NextTodo ==
    ASSUME Typed, Next
    PROVE  todo' \subseteq Entry
<1>1. todo \subseteq Entry
  BY DEF Typed, RestTyped
<1>2. Entries \subseteq Entry
  BY DEF Entries, Entry
<1>3. CASE Request
  BY <1>1, <1>2, <1>3
     DEF Request, PutIndexed, PutBegin, Get, ReadRange, HeadBody, DeleteBegin, WopenBegin,
         ScanBegin, Wappend, WcommitBegin, Wabort
<1>4. CASE Poll
  BY <1>1, <1>4
     DEF Poll, PutWrite, DeleteProbe, ScanPage, WcommitCopy, ScanBody, PutClear, PutFence,
         PutPublish, PutDiscard, DeleteUnlink, DeleteFence, ScanStaging, ScanTemp, WopenClear,
         WopenCreate, WcommitFence, WcommitRename, WcommitCopied, WcommitName
<1>5. CASE Crash \/ \E w \in Wid, ok \in BOOLEAN : Reap(w) \/ Retire(w, ok)
  BY <1>1, <1>5 DEF Crash, Reap, Retire
<1>6. QED
  BY <1>3, <1>4, <1>5 DEF Next

\* What was acknowledged, retired and served names bodies and files.
LEMMA NextHistory ==
    ASSUME Typed, Next
    PROVE  /\ caps' = caps /\ acked' \subseteq Digest /\ retired' \subseteq Digest
           /\ served' \in File
<1> DEFINE Goal == /\ caps' = caps /\ acked' \subseteq Digest /\ retired' \subseteq Digest
                   /\ served' \in File
<1>1. /\ acked \subseteq Digest /\ retired \subseteq Digest /\ served \in File
      /\ \A d \in Digest : content[d] \in File
  BY DEF Typed, RestTyped, DiskTyped
<1>2. job.op # "none" => job.digest \in Digest
  BY HeldJob DEF Typed, RestTyped
<1>3. CASE UNCHANGED <<caps, acked, retired, served>>
  BY <1>1, <1>3
<1>4. CASE Request
  BY <1>1, <1>4
     DEF Request, PutIndexed, PutBegin, Get, ReadRange, HeadBody, DeleteBegin, WopenBegin,
         ScanBegin, Wappend, WcommitBegin, Wabort, history
<1>5. CASE Poll
  <2>1. ASSUME NEW ok \in BOOLEAN, PutPublish(ok) \/ WcommitRename(ok) \/ WcommitName(ok)
        PROVE  Goal
    BY <1>1, <1>2, <2>1 DEF PutPublish, WcommitRename, WcommitName, Acknowledge, At
  <2>2. ASSUME NEW ok \in BOOLEAN, DeleteFence(ok) \/ DeleteProbe PROVE Goal
    BY <1>1, <1>2, <2>2 DEF DeleteFence, DeleteProbe, Retired, At
  <2>3. \/ UNCHANGED <<caps, acked, retired, served>> \/ DeleteProbe
        \/ \E ok \in BOOLEAN : \/ PutPublish(ok) \/ WcommitRename(ok) \/ WcommitName(ok)
                               \/ DeleteFence(ok)
    BY <1>5 DEF Poll, PutWrite, ScanPage, WcommitCopy, ScanBody, PutClear, PutFence, PutDiscard,
                DeleteUnlink, ScanStaging, ScanTemp, WopenClear, WopenCreate, WcommitFence,
                WcommitCopied, history
  <2>4. QED
    BY <1>3, <2>1, <2>2, <2>3
<1>6. CASE Crash \/ \E w \in Wid, ok \in BOOLEAN : Reap(w) \/ Retire(w, ok)
  BY <1>3, <1>6 DEF Crash, Reap, Retire, history
<1>7. QED
  BY <1>4, <1>5, <1>6 DEF Next

\* An id being opened is free until its session is made: the reaper and the
\* owed removals, which run beside the request held, have nothing to do with it.
LEMMA NextSessions ==
    ASSUME Typed, Sessions, Next
    PROVE  Sessions'
<1>1. \A w \in Wid : Kept(w)
  BY NextSess
<1>2. ASSUME NEW w \in Wid, sess'[w].open PROVE ~sess'[w].owed /\ temp'[w] # "none"
  BY <1>1, <1>2 DEF Kept, Sessions
<1>3. ASSUME job'.op = "wopen" PROVE FreeWid(job.wid)'
  <2>1. CASE job' = job /\ sess' = sess
    BY <1>3, <2>1 DEF Sessions, FreeWid
  <2>2. CASE job' = None
    BY <1>3, <2>2, NoneJob
  <2>3. ASSUME NEW d \in Digest, NEW w \in Wid, WopenBegin(d, w) PROVE FreeWid(job.wid)'
    BY <2>3 DEF WopenBegin, Hold, FreeWid
  <2>4. ASSUME NEW ok \in BOOLEAN, WopenClear(ok) PROVE FreeWid(job.wid)'
    <3>1. job'.wid = job.wid
      BY <2>4, GotoJob DEF WopenClear, At, Typed, RestTyped, Phase
    <3>2. QED
      BY <2>4, <3>1 DEF WopenClear, At, Sessions, FreeWid
  <2>5. ASSUME NEW w \in Wid, NEW ok \in BOOLEAN, Reap(w) \/ Retire(w, ok)
        PROVE  FreeWid(job.wid)'
    <3>1. /\ job' = job /\ (sess[w].open \/ sess[w].owed) /\ SessTyped
      BY <2>5 DEF Reap, Retire, Typed
    <3>2. job.wid \in Wid /\ job.wid # w /\ FreeWid(job.wid)
      BY <1>3, <3>1, HeldJob DEF Sessions, FreeWid, Typed, RestTyped
    <3>3. sess'[job.wid] = sess[job.wid]
      <4>1. CASE Reap(w)
        BY <3>1, <3>2, <4>1, EndSessionDoes DEF Reap, SessTyped
      <4>2. CASE Retire(w, ok)
        BY <3>1, <3>2, <4>2 DEF Retire, SessTyped
      <4>3. QED
        BY <2>5, <4>1, <4>2
    <3>4. QED
      BY <3>1, <3>2, <3>3 DEF FreeWid
  <2>6. CASE Request
    <3>1. ASSUME NEW w \in Wid, NEW right \in BOOLEAN, NEW ok \in BOOLEAN,
                 Wappend(w, right, ok) \/ Wabort(w) \/ WcommitBegin(w)
          PROVE  job'.op # "wopen"
      BY <3>1, NoneJob DEF Wappend, Wabort, WcommitBegin, Idle, Hold
    <3>2. ASSUME NEW d \in Digest,
                 \/ PutIndexed(d) \/ PutBegin(d) \/ Get(d) \/ ReadRange(d) \/ HeadBody(d)
                 \/ DeleteBegin(d) \/ \E sweep \in BOOLEAN : ScanBegin(sweep)
          PROVE  job'.op # "wopen"
      BY <3>2, NoneJob DEF PutIndexed, PutBegin, Get, ReadRange, HeadBody, DeleteBegin, ScanBegin,
                           Idle, Hold
    <3>3. QED
      BY <1>3, <2>3, <2>6, <3>1, <3>2, NamesAssumption DEF Request
  <2>7. CASE Poll
    <3>1. \/ job' = job /\ sess' = sess
          \/ job' = None
          \/ \E ok \in BOOLEAN : WopenClear(ok)
          \/ job.op \in {"put", "delete", "wcommit"} /\ \E phase \in Phase : Goto(phase)
      <4>1. ASSUME NEW ok \in BOOLEAN,
                   \/ PutClear(ok) \/ PutFence(ok) \/ PutPublish(ok) \/ PutDiscard(ok)
                   \/ DeleteUnlink(ok) \/ DeleteFence(ok)
            PROVE  \/ job' = None
                   \/ job.op \in {"put", "delete"} /\ \E phase \in Phase : Goto(phase)
        BY <4>1 DEF PutClear, PutFence, PutPublish, PutDiscard, DeleteUnlink, DeleteFence, At,
                    Acknowledge, Retired, Phase
      <4>2. ASSUME NEW ok \in BOOLEAN,
                   \/ WopenCreate(ok) \/ WcommitFence(ok)
                   \/ WcommitRename(ok) \/ WcommitCopied(ok) \/ WcommitName(ok)
            PROVE  \/ job' = None
                   \/ job.op = "wcommit" /\ \E phase \in Phase : Goto(phase)
        BY <4>2 DEF WopenCreate, WcommitFence, WcommitRename, WcommitCopied, WcommitName,
                    WcommitRefused, Acknowledge, At, Phase
      <4>3. QED
        BY <2>7, <4>1, <4>2
           DEF Poll, PutWrite, DeleteProbe, ScanPage, WcommitCopy, ScanBody, ScanStaging,
               ScanTemp, Retired
    <3>2. ASSUME job.op \in {"put", "delete", "wcommit"}, NEW phase \in Phase, Goto(phase)
          PROVE  job'.op # "wopen"
      BY <3>2, GotoJob DEF Typed, RestTyped
    <3>3. QED
      BY <1>3, <2>1, <2>2, <2>4, <3>1, <3>2
  <2>8. CASE Crash
    BY <2>2, <2>8 DEF Crash
  <2>9. QED
    BY <2>5, <2>6, <2>7, <2>8 DEF Next
<1>4. QED
  BY <1>2, <1>3 DEF Sessions

\* body_store keeps its types, its index its bound, and its sessions their
\* temporaries, whatever the provider can do and whatever call fails.
THEOREM Inductive == Spec => [](Typed /\ Sessions)
<1>1. Init => Typed /\ Sessions
  <2>1. Init => Sessions
    BY NoneJob DEF Init, Sessions, Closed
  <2>2. QED
    BY <2>1, InitTyped
<1>2. Typed /\ Sessions /\ [Next]_vars => Typed' /\ Sessions'
  <2> SUFFICES ASSUME Typed, Sessions, [Next]_vars PROVE Typed' /\ Sessions'
    OBVIOUS
  <2>1. CASE Next
    <3>1. RestTyped'
      BY <2>1, NextJob, NextTodo, NextHistory DEF RestTyped, Typed
    <3>2. QED
      BY <2>1, <3>1, NextDisk, NextSess, NextIndex, NextSessions DEF Typed
  <2>2. CASE UNCHANGED vars
    BY <2>2 DEF vars, Typed, DiskTyped, SessTyped, IndexTyped, RestTyped, Sessions, FreeWid
  <2>3. QED
    BY <2>1, <2>2
<1>3. QED
  BY <1>1, <1>2, PTL DEF Spec

\* Every variable keeps its type and the index never holds more than its slots,
\* for any number of them (BODY_SLOTS, record_slot).
THEOREM TypeCorrect == Spec => []TypeOK
<1>1. Typed => TypeOK
  BY DEF Typed, DiskTyped, SessTyped, IndexTyped, RestTyped, JobType, TypeOK
<1>2. QED
  BY <1>1, Inductive, PTL

\* The temporary of an open session stays: neither a removal owed by an earlier
\* session of its id, nor a sweep, nor the reaper takes it (unlink_owed).
THEOREM TemporariesKept == Spec => []TempKept
<1>1. Sessions => TempKept
  BY DEF Sessions, TempKept
<1>2. QED
  BY <1>1, Inductive, PTL

-------------------------------------------------------------------------------
(***************************************************************************)
(* Where the provider renames and fences names.  A name fence that fails   *)
(* leaves the removal volatile, and the body may come back: the theorem    *)
(* on deletion is for providers whose name fences do not fail.             *)
(***************************************************************************)

\* The steps of a request, as far as the content paths, the request held and the
\* bodies retired are concerned, but for DELETE's own.
Steady == UNCHANGED <<content, after, job, retired>>

Taken ==
    /\ UNCHANGED <<content, after>>
    /\ Idle
    /\ \E op \in JobOp, d \in Digest, w \in Wid, phase \in Phase :
          /\ Hold(op, d, w, phase)
          /\ op = "delete" => phase = "unlink"
          /\ op = "wcommit" => phase = "fence"
          /\ retired' = IF op \in {"put", "wcommit"} THEN retired \ {d} ELSE retired

Moved ==
    /\ UNCHANGED <<content, after, retired>>
    /\ job.op \notin {"none", "delete"}
    /\ \/ job' = None
       \/ \E phase \in Phase : Goto(phase) /\ (job.op = "wcommit" => phase = "publish")

Published ==
    /\ job.op \in {"put", "wcommit"}
    /\ job' = None
    /\ retired' = retired
    /\ \E f \in File : Publish(job.digest, f)

\* By rename, the content paths change where a file is renamed to one, where
\* one is removed and the removal fenced, and in a crash, and nowhere else.
LEMMA RenameSteps ==
    ASSUME Typed, Gone, ByRename, "name" \notin Faults, Next
    PROVE  \/ Steady \/ Taken \/ Moved \/ Published
           \/ DeleteProbe \/ DeleteFence(TRUE) \/ Crash
           \/ \E ok \in BOOLEAN : DeleteUnlink(ok)
<1> USE DEF Typed, Steady, Taken, Moved, Published
<1>1. Tier = "rename"
  BY DEF Tier, ByRename
<1>2. job.op # "none" => job.digest \in Digest /\ job.wid \in Wid
  BY HeldJob DEF RestTyped
<1>3. ASSUME NEW d \in Digest, NEW w \in Wid,
             \/ PutIndexed(d) \/ PutBegin(d) \/ Get(d) \/ ReadRange(d) \/ HeadBody(d)
             \/ DeleteBegin(d) \/ WopenBegin(d, w)
      PROVE  Steady \/ Taken
  <2>1. CASE PutIndexed(d) \/ Get(d) \/ ReadRange(d) \/ HeadBody(d)
    BY <2>1 DEF PutIndexed, Get, ReadRange, HeadBody, disk, history
  <2>2. CASE PutBegin(d)
    BY <2>2, AnyName DEF PutBegin, disk, JobOp, Phase
  <2>3. CASE DeleteBegin(d) \/ WopenBegin(d, w)
    BY <2>3, AnyName DEF DeleteBegin, WopenBegin, disk, history, JobOp, Phase
  <2>4. QED
    BY <1>3, <2>1, <2>2, <2>3
<1>4. ASSUME NEW sweep \in BOOLEAN, ScanBegin(sweep) PROVE Taken
  BY <1>4, AnyName DEF ScanBegin, disk, history, JobOp, Phase
<1>5. ASSUME NEW w \in Wid, WcommitBegin(w) PROVE Steady \/ Taken
  <2>1. sess[w].digest \in Digest
    BY DEF SessTyped, Session
  <2>2. QED
    BY <1>5, <2>1 DEF WcommitBegin, disk, JobOp, Phase
<1>6. ASSUME NEW w \in Wid, NEW right \in BOOLEAN, NEW ok \in BOOLEAN,
             Wappend(w, right, ok) \/ Wabort(w)
      PROVE  Steady
  BY <1>6 DEF Wappend, Wabort, disk, history
<1>7. CASE Request
  BY <1>3, <1>4, <1>5, <1>6, <1>7, NamesAssumption DEF Request
<1>8. ASSUME NEW ok \in BOOLEAN, PutClear(ok) \/ PutFence(ok) \/ PutDiscard(ok) PROVE Moved
  BY <1>1, <1>8 DEF PutClear, PutFence, PutDiscard, At, Phase, disk, history
<1>9. ASSUME NEW ok \in BOOLEAN, PutPublish(ok) PROVE Moved \/ Published
  <2>1. staging[job.digest] \in File
    BY <1>2, <1>9 DEF PutPublish, At, DiskTyped
  <2>2. QED
    BY <1>1, <1>9, <2>1 DEF PutPublish, Acknowledge, At, Phase
<1>10. ASSUME NEW ok \in BOOLEAN, WopenClear(ok) \/ WopenCreate(ok) \/ WcommitFence(ok)
       PROVE  Moved
  BY <1>1, <1>10 DEF WopenClear, WopenCreate, WcommitFence, WcommitRefused, At, Phase, disk,
                     history
<1>11. ASSUME NEW ok \in BOOLEAN, WcommitRename(ok) PROVE Moved \/ Published
  <2>1. Body(job.wid) \subseteq File
    BY DEF Body, File
  <2>2. QED
    BY <1>11, <2>1 DEF WcommitRename, WcommitRefused, Acknowledge, At
<1>12. ASSUME NEW ok \in BOOLEAN, WcommitCopy \/ WcommitCopied(ok) \/ WcommitName(ok)
       PROVE  FALSE
  BY <1>12 DEF WcommitCopy, WcommitCopied, WcommitName, At, Gone
<1>13. ASSUME NEW ok \in BOOLEAN, DeleteFence(ok) PROVE DeleteFence(TRUE)
  BY <1>13 DEF DeleteFence, ByRename
<1>14. CASE ScanPage
  BY <1>14 DEF ScanPage, At, disk, history
<1>15. CASE PutWrite \/ \E d \in Digest, w \in Wid, ok \in BOOLEAN :
                           ScanBody(d) \/ ScanStaging(d, ok) \/ ScanTemp(w, ok)
  BY <1>1, <1>15 DEF PutWrite, ScanBody, ScanStaging, ScanTemp, disk, history
<1>16. CASE Poll
  BY <1>8, <1>9, <1>10, <1>11, <1>12, <1>13, <1>14, <1>15, <1>16, NamesAssumption DEF Poll
<1>17. CASE \E w \in Wid, ok \in BOOLEAN : Reap(w) \/ Retire(w, ok)
  BY <1>17 DEF Reap, Retire, disk, history
<1>18. QED
  BY <1>7, <1>16, <1>17 DEF Next

\* By rename, a body retired stays gone, whatever is written, removed again or
\* left undecided at a crash.
LEMMA NextGone ==
    ASSUME Typed, Gone, ByRename, "name" \notin Faults, Next
    PROVE  Gone'
<1> USE DEF Typed
<1>1. /\ content \in [Digest -> File] /\ after \in [Digest -> (SUBSET File) \ {{}}]
      /\ retired \subseteq Digest /\ job \in JobType
  BY DEF DiskTyped, RestTyped
<1>2. job.op # "none" => job.digest \in Digest /\ job.wid \in Wid
  BY HeldJob DEF RestTyped
<1>3. CASE UNCHANGED <<content, after, job, retired>>
  BY <1>3 DEF Gone, At
<1>4. ASSUME UNCHANGED <<content, after>>, Idle,
             NEW op \in JobOp, NEW d \in Digest, NEW w \in Wid, NEW phase \in Phase,
             Hold(op, d, w, phase),
             op = "delete" => phase = "unlink",
             op = "wcommit" => phase = "fence",
             retired' = IF op \in {"put", "wcommit"} THEN retired \ {d} ELSE retired
      PROVE  Gone'
  <2>1. ~At("delete", "fence")
    BY <1>4, NoneJob DEF Idle, At
  <2>2. job'.op = op /\ job'.digest = d /\ job'.phase = phase
    BY <1>4, HoldJob
  <2>3. QED
    BY <1>1, <1>4, <2>1, <2>2 DEF Gone, At
<1>5. ASSUME UNCHANGED <<content, after, retired>>, job.op \notin {"none", "delete"},
             job' = None
      PROVE  Gone'
  BY <1>5, NoneJob DEF Gone, At
<1>6. ASSUME UNCHANGED <<content, after, retired>>, job.op \notin {"none", "delete"},
             NEW phase \in Phase, Goto(phase), job.op = "wcommit" => phase = "publish"
      PROVE  Gone'
  <2>1. job'.op = job.op /\ job'.digest = job.digest /\ job'.phase = phase
    BY <1>1, <1>6, GotoJob
  <2>2. QED
    BY <1>6, <2>1 DEF Gone, At
<1>7. ASSUME job.op \in {"put", "wcommit"}, job' = None, retired' = retired,
             NEW f \in File, Publish(job.digest, f)
      PROVE  Gone'
  <2>1. job.digest \in Digest /\ job.digest \notin retired /\ ~At("delete", "fence")
    BY <1>2, <1>7 DEF Gone, At
  <2>2. /\ content'[job.digest] = f /\ after'[job.digest] = {f}
        /\ \A d \in Digest : d # job.digest => content'[d] = content[d] /\ after'[d] = after[d]
    BY <1>1, <1>7, <2>1 DEF Publish
  <2>3. QED
    BY <1>1, <1>7, <2>1, <2>2, NoneJob DEF Gone, At
<1>8. CASE DeleteProbe
  <2>1. job.digest \in Digest /\ ~At("delete", "fence")
    BY <1>2, <1>8 DEF DeleteProbe, At
  <2>2. after[job.digest] = {content[job.digest]}
    BY <2>1 DEF Gone
  <2>3. QED
    BY <1>8, <2>1, <2>2, NoneJob DEF DeleteProbe, Retired, Gone, At, disk
<1>9. CASE DeleteFence(TRUE)
  <2>1. job.digest \in Digest /\ content[job.digest] = "none"
    BY <1>2, <1>9 DEF DeleteFence, At, Gone
  <2>2. /\ content' = content /\ after'[job.digest] = {"none"} /\ job' = None
        /\ \A d \in Digest : d # job.digest => after'[d] = after[d]
        /\ retired' = retired \cup {job.digest}
    BY <1>1, <1>9, <2>1 DEF DeleteFence, Retired
  <2>3. QED
    BY <1>1, <2>1, <2>2, NoneJob DEF Gone, At
<1>10. ASSUME NEW ok \in BOOLEAN, DeleteUnlink(ok) PROVE Gone'
  <2>1. /\ job.digest \in Digest /\ job.op = "delete" /\ ~At("delete", "fence")
        /\ retired' = retired
    BY <1>2, <1>10 DEF DeleteUnlink, At, history
  <2>2. CASE ok
    <3>1. /\ content[job.digest] # "none" /\ content'[job.digest] = "none"
          /\ \A d \in Digest : d # job.digest => content'[d] = content[d] /\ after'[d] = after[d]
          /\ Goto("fence")
      BY <1>1, <1>10, <2>1, <2>2 DEF DeleteUnlink
    <3>2. job'.op = "delete" /\ job'.digest = job.digest /\ job'.phase = "fence"
      BY <1>1, <2>1, <3>1, GotoJob DEF Phase
    <3>3. job.digest \notin retired
      BY <3>1 DEF Gone
    <3>4. QED
      BY <1>1, <2>1, <3>1, <3>2, <3>3 DEF Gone, At
  <2>3. CASE ~ok
    <3>1. UNCHANGED <<content, after>> /\ Goto("probe")
      BY <1>10, <2>3 DEF DeleteUnlink
    <3>2. job'.op = "delete" /\ job'.digest = job.digest /\ job'.phase = "probe"
      BY <1>1, <2>1, <3>1, GotoJob DEF Phase
    <3>3. QED
      BY <2>1, <3>1, <3>2 DEF Gone, At
  <2>4. QED
    BY <2>2, <2>3
<1>11. CASE Crash
  <2>1. /\ \A d \in Digest : content'[d] \in after[d] \cup Undecided(d)
        /\ \A d \in Digest : after'[d] = {content'[d]}
        /\ job' = None /\ retired' = retired
    BY <1>11 DEF Crash, history
  <2>2. ASSUME NEW d \in retired PROVE Undecided(d) \subseteq {"none"}
    BY <2>2 DEF Undecided, Gone, At
  <2>3. ASSUME NEW d \in retired PROVE content'[d] = "none"
    BY <1>1, <2>1, <2>2 DEF Gone
  <2>4. QED
    BY <1>1, <2>1, <2>3, NoneJob DEF Gone, At
<1>12. QED
  BY <1>3, <1>4, <1>5, <1>6, <1>7, <1>8, <1>9, <1>10, <1>11, RenameSteps
     DEF Steady, Taken, Moved, Published

\* By rename, with removals that do not fail: what a PUT or a WCOMMIT publishes
\* is whole.
LEMMA PublishedWhole ==
    ASSUME Typed, Whole, ByRename, PutPublish(TRUE) \/ WcommitRename(TRUE)
    PROVE  /\ job.digest \in Digest /\ job.op \in {"put", "wcommit"}
           /\ Publish(job.digest, "whole") /\ Acknowledge(job.digest)
<1>1. job.digest \in Digest /\ job.wid \in Wid /\ job.op \in {"put", "wcommit"}
  BY HeldJob DEF PutPublish, WcommitRename, At, Typed, RestTyped
<1>2. CASE PutPublish(TRUE)
  BY <1>1, <1>2 DEF PutPublish, Tier, ByRename, Whole, Staged
<1>3. CASE WcommitRename(TRUE)
  <2>1. Body(job.wid) = {"whole"}
    BY <1>1, <1>3 DEF WcommitRename, At, Body, Whole, Staged
  <2>2. QED
    BY <1>1, <1>3, <2>1 DEF WcommitRename
<1>4. QED
  BY <1>2, <1>3

\* The steps that change what is stored, indexed or acknowledged.
LEMMA StoreSteps ==
    ASSUME Typed, Gone, Stored, ByRename, "name" \notin Faults, Next
    PROVE  \/ /\ UNCHANGED <<content, after, slots, acked>>
              /\ job' = job \/ (job.op # "delete" /\ job'.op # "delete")
           \/ \E d \in Digest : /\ content[d] = "whole" /\ slots' = Indexed(d)
                                /\ UNCHANGED <<content, after, acked, job>>
           \/ \E d \in Digest : PutIndexed(d) \/ DeleteBegin(d)
           \/ PutPublish(TRUE) \/ WcommitRename(TRUE) \/ DeleteProbe \/ DeleteFence(TRUE)
           \/ Crash \/ \E ok \in BOOLEAN : DeleteUnlink(ok)
<1> DEFINE Quiet == /\ UNCHANGED <<content, after, slots, acked>>
                    /\ job' = job \/ (job.op # "delete" /\ job'.op # "delete")
           Offered == \E d \in Digest : /\ content[d] = "whole" /\ slots' = Indexed(d)
                                        /\ UNCHANGED <<content, after, acked, job>>
<1>1. Tier = "rename"
  BY DEF Tier, ByRename
<1>2. \A d \in Digest : content[d] # "none" => content[d] = "whole"
  BY DEF Typed, DiskTyped, File, Stored
<1>3. job \in JobType
  BY DEF Typed, RestTyped
<1>4. ASSUME NEW d \in Digest, NEW w \in Wid,
             PutBegin(d) \/ ReadRange(d) \/ WopenBegin(d, w) PROVE Quiet
  BY <1>4, NoneJob DEF PutBegin, ReadRange, WopenBegin, Idle, Hold, disk, history
<1>5. ASSUME NEW d \in Digest, Get(d) \/ HeadBody(d) PROVE Offered
  BY <1>2, <1>5 DEF Get, HeadBody, disk, history
<1>6. ASSUME NEW sweep \in BOOLEAN, ScanBegin(sweep) PROVE Quiet
  BY <1>6, NoneJob DEF ScanBegin, Idle, Hold, disk, history
<1>7. ASSUME NEW w \in Wid, NEW right \in BOOLEAN, NEW ok \in BOOLEAN,
             Wappend(w, right, ok) \/ WcommitBegin(w) \/ Wabort(w)
      PROVE  Quiet
  BY <1>7, NoneJob DEF Wappend, WcommitBegin, Wabort, Idle, Hold, disk, history
<1>8. CASE Request
  BY <1>4, <1>5, <1>6, <1>7, <1>8, NamesAssumption DEF Request
<1>9. ASSUME job.op \notin {"none", "delete"}, NEW phase \in Phase, Goto(phase)
      PROVE  job'.op # "delete"
  BY <1>3, <1>9, GotoJob
<1>10. ASSUME NEW ok \in BOOLEAN, PutClear(ok) \/ PutFence(ok) \/ PutDiscard(ok) PROVE Quiet
  BY <1>1, <1>9, <1>10, NoneJob DEF PutClear, PutFence, PutDiscard, At, Phase, disk, history
<1>11. ASSUME NEW ok \in BOOLEAN, PutPublish(ok) PROVE Quiet \/ PutPublish(TRUE)
  BY <1>9, <1>11, NoneJob DEF PutPublish, At, Phase
<1>12. ASSUME NEW ok \in BOOLEAN, WopenClear(ok) \/ WopenCreate(ok) \/ WcommitFence(ok)
       PROVE  Quiet
  BY <1>1, <1>9, <1>12, NoneJob
     DEF WopenClear, WopenCreate, WcommitFence, WcommitRefused, At, Phase, disk, history
<1>13. ASSUME NEW ok \in BOOLEAN, WcommitRename(ok) PROVE Quiet \/ WcommitRename(TRUE)
  BY <1>13, NoneJob DEF WcommitRename, WcommitRefused, At
<1>14. ASSUME NEW ok \in BOOLEAN, WcommitCopy \/ WcommitCopied(ok) \/ WcommitName(ok)
       PROVE  FALSE
  BY <1>14 DEF WcommitCopy, WcommitCopied, WcommitName, At, Gone
<1>15. ASSUME NEW ok \in BOOLEAN, DeleteFence(ok) PROVE DeleteFence(TRUE)
  BY <1>15 DEF DeleteFence, ByRename
<1>16. CASE ScanPage
  BY <1>16, NoneJob DEF ScanPage, At, disk, history
<1>17. ASSUME NEW d \in Digest, ScanBody(d) PROVE Quiet \/ Offered
  BY <1>2, <1>17 DEF ScanBody, disk, history
<1>18. CASE PutWrite \/ \E d \in Digest, w \in Wid, ok \in BOOLEAN :
                           ScanStaging(d, ok) \/ ScanTemp(w, ok)
  BY <1>1, <1>18 DEF PutWrite, ScanStaging, ScanTemp, disk, history
<1>19. CASE Poll
  BY <1>10, <1>11, <1>12, <1>13, <1>14, <1>15, <1>16, <1>17, <1>18, <1>19, NamesAssumption DEF Poll
<1>20. CASE \E w \in Wid, ok \in BOOLEAN : Reap(w) \/ Retire(w, ok)
  BY <1>20 DEF Reap, Retire, disk, history
<1>21. QED
  BY <1>8, <1>19, <1>20 DEF Next

\* By rename, what was acknowledged stored stays whole on disk and across a crash
\* until its deletion is asked for, and the index never claims a body that is
\* not there, which is what lets a second PUT be acknowledged unwritten.
LEMMA NextStored ==
    ASSUME Typed, Gone, Whole, ByRename, "name" \notin Faults, Next
    PROVE  Stored'
<1> USE DEF Whole
<1>1. /\ content \in [Digest -> File] /\ after \in [Digest -> (SUBSET File) \ {{}}]
      /\ acked \subseteq Digest /\ slots \subseteq Digest /\ job \in JobType
  BY DEF Typed, DiskTyped, RestTyped, IndexTyped
<1>2. job.op # "none" => job.digest \in Digest /\ job.wid \in Wid
  BY HeldJob DEF Typed, RestTyped
<1>3. CASE /\ UNCHANGED <<content, after, slots, acked>>
           /\ job' = job \/ (job.op # "delete" /\ job'.op # "delete")
  BY <1>3 DEF Stored, At
<1>4. ASSUME NEW d \in Digest, content[d] = "whole", slots' = Indexed(d),
             UNCHANGED <<content, after, acked, job>>
      PROVE  Stored'
  BY <1>4 DEF Stored, At, Indexed
<1>5. ASSUME NEW d \in Digest, PutIndexed(d) PROVE Stored'
  <2>1. ~At("delete", "fence") /\ job.op = "none"
    BY <1>5, NoneJob DEF PutIndexed, Idle, At
  <2>2. content[d] = "whole" /\ after[d] = {"whole"}
    BY <1>5, <2>1 DEF PutIndexed, Stored, Gone
  <2>3. QED
    BY <1>5, <2>1, <2>2 DEF PutIndexed, Stored, At, disk
<1>6. ASSUME NEW d \in Digest, DeleteBegin(d) PROVE Stored'
  <2>1. ~At("delete", "fence")
    BY <1>6, NoneJob DEF DeleteBegin, Idle, At
  <2>2. job'.digest = d /\ job'.phase = "unlink"
    BY <1>6 DEF DeleteBegin, Hold
  <2>3. QED
    BY <1>6, <2>1, <2>2 DEF DeleteBegin, Stored, At, disk
<1>7. CASE PutPublish(TRUE) \/ WcommitRename(TRUE)
  <2>1. /\ job.digest \in Digest /\ job.op \in {"put", "wcommit"}
        /\ Publish(job.digest, "whole") /\ Acknowledge(job.digest)
    BY <1>7, PublishedWhole
  <2>2. /\ content'[job.digest] = "whole" /\ after'[job.digest] = {"whole"}
        /\ \A d \in Digest : d # job.digest => content'[d] = content[d] /\ after'[d] = after[d]
    BY <1>1, <2>1 DEF Publish
  <2>3. /\ slots' \subseteq slots \cup {job.digest} /\ acked' = acked \cup {job.digest}
        /\ job'.op = "none"
    BY <2>1, NoneJob DEF Acknowledge, Indexed
  <2>4. ~At("delete", "fence")
    BY <2>1 DEF At
  <2>5. QED
    BY <1>1, <2>1, <2>2, <2>3, <2>4 DEF Stored, At
<1>8. CASE DeleteProbe
  <2>1. /\ UNCHANGED <<content, after, acked>> /\ slots' \subseteq slots /\ job'.op = "none"
        /\ ~At("delete", "fence")
    BY <1>8, NoneJob DEF DeleteProbe, Retired, At, disk
  <2>2. QED
    BY <2>1 DEF Stored, At
<1>9. CASE DeleteFence(TRUE)
  <2>1. job.digest \in Digest /\ job.op = "delete"
    BY <1>2, <1>9 DEF DeleteFence, At
  <2>2. /\ content' = content /\ after'[job.digest] = {"none"} /\ job'.op = "none"
        /\ \A d \in Digest : d # job.digest => after'[d] = after[d]
        /\ slots' = slots \ {job.digest} /\ acked' = acked
    BY <1>1, <1>9, <2>1, NoneJob DEF DeleteFence, Retired
  <2>3. QED
    BY <1>1, <2>1, <2>2 DEF Stored, At
<1>10. ASSUME NEW ok \in BOOLEAN, DeleteUnlink(ok) PROVE Stored'
  <2>1. /\ job.digest \in Digest /\ job.op = "delete" /\ ~At("delete", "fence")
        /\ slots' = slots /\ acked' = acked
    BY <1>2, <1>10 DEF DeleteUnlink, At, history
  <2>2. CASE ok
    <3>1. /\ content'[job.digest] = "none" /\ after'[job.digest] = after[job.digest] \cup {"none"}
          /\ \A d \in Digest : d # job.digest => content'[d] = content[d] /\ after'[d] = after[d]
          /\ Goto("fence")
      BY <1>1, <1>10, <2>1, <2>2 DEF DeleteUnlink
    <3>2. job'.op = "delete" /\ job'.digest = job.digest /\ job'.phase = "fence"
      BY <1>1, <2>1, <3>1, GotoJob DEF Phase
    <3>3. QED
      BY <1>1, <2>1, <3>1, <3>2 DEF Stored, At
  <2>3. CASE ~ok
    <3>1. UNCHANGED <<content, after>> /\ Goto("probe")
      BY <1>10, <2>3 DEF DeleteUnlink
    <3>2. job'.op = "delete" /\ job'.digest = job.digest /\ job'.phase = "probe"
      BY <1>1, <2>1, <3>1, GotoJob DEF Phase
    <3>3. QED
      BY <2>1, <3>1, <3>2 DEF Stored, At
  <2>4. QED
    BY <2>2, <2>3
<1>11. CASE Crash
  <2>1. /\ \A d \in Digest : content'[d] \in after[d] \cup Undecided(d)
        /\ \A d \in Digest : after'[d] = {content'[d]}
        /\ job'.op = "none" /\ acked' = acked /\ slots' = {}
    BY <1>11, NoneJob DEF Crash, history
  <2>2. At("wcommit", "publish") => Body(job.wid) = {"whole"}
    BY <1>2 DEF At, Body, Staged
  <2>3. ASSUME NEW d \in Digest PROVE Undecided(d) \subseteq {"none", "whole"}
    BY <2>2 DEF Undecided, Staged
  <2>4. ASSUME NEW d \in acked PROVE Undecided(d) \subseteq {"whole"}
    <3>1. Tier = "rename"
      BY DEF Tier, ByRename
    <3>2. QED
      BY <2>2, <3>1 DEF Undecided, Staged, Stored, At
  <2>5. \A d \in Digest : content'[d] # "torn"
    BY <2>1, <2>3 DEF Stored
  <2>6. \A d \in acked : content'[d] = "whole"
    BY <1>1, <2>1, <2>4 DEF Stored
  <2>7. QED
    BY <1>1, <2>1, <2>5, <2>6 DEF Stored, At
<1>12. QED
  BY <1>3, <1>4, <1>5, <1>6, <1>7, <1>8, <1>9, <1>10, <1>11, StoreSteps

\* By rename, no read answers torn bytes.
LEMMA NextServed ==
    ASSUME Typed, Whole, Next
    PROVE  served' # "torn"
<1>1. served # "torn" /\ \A d \in Digest : content[d] # "torn"
  BY DEF Whole, Stored
<1>2. CASE Request
  BY <1>1, <1>2
     DEF Request, PutIndexed, PutBegin, Get, ReadRange, HeadBody, DeleteBegin, WopenBegin,
         ScanBegin, Wappend, WcommitBegin, Wabort, history
<1>3. CASE Poll
  BY <1>1, <1>3
     DEF Poll, PutWrite, DeleteProbe, ScanPage, WcommitCopy, ScanBody, PutClear, PutFence,
         PutPublish, PutDiscard, DeleteUnlink, DeleteFence, ScanStaging, ScanTemp, WopenClear,
         WopenCreate, WcommitFence, WcommitRename, WcommitCopied, WcommitName, history
<1>4. CASE Crash \/ \E w \in Wid, ok \in BOOLEAN : Reap(w) \/ Retire(w, ok)
  BY <1>1, <1>4 DEF Crash, Reap, Retire, history
<1>5. QED
  BY <1>2, <1>3, <1>4 DEF Next

\* By rename, with removals that do not fail, the file a PUT or a WCOMMIT is about
\* to rename stays whole while the request waits for the provider: a PUT cleared
\* and wrote its own staging file, and the reaper leaves the session alone.
LEMMA NextStaged ==
    ASSUME Typed, Sessions, Whole, ByRename, "unlink" \notin Faults, Next
    PROVE  Staged'
<1> USE DEF Typed, Whole
<1>1. job \in JobType /\ SessTyped /\ DiskTyped
  BY DEF RestTyped
<1>2. job.op # "none" => job.digest \in Digest /\ job.wid \in Wid
  BY HeldJob DEF RestTyped
<1>3. Tier = "rename"
  BY DEF Tier, ByRename
<1>4. ASSUME NEW w \in Wid, sess'[w].open PROVE temp'[w] = "stream"
  BY <1>4, NextSess DEF Kept, Staged
<1> DEFINE Rest == /\ At("put", "publish") => staging[job.digest] = "whole"
                   /\ At("wopen", "create") => temp[job.wid] = "none"
                   /\ job.op = "wcommit" => sess[job.wid].open /\ sess[job.wid].good
<1>5. ASSUME job' = None PROVE Rest'
  BY <1>5, NoneJob DEF At
<1>6. ASSUME job' = job /\ job.op \in {"none", "scan", "delete"} PROVE Rest'
  BY <1>6 DEF At
<1>7. ASSUME PutWrite PROVE Rest'
  BY <1>7 DEF PutWrite, At
<1>8. ASSUME NEW w \in Wid, NEW ok \in BOOLEAN, Reap(w) \/ Retire(w, ok) PROVE Rest'
  <2>1. /\ job' = job /\ staging' = staging
        /\ \A x \in Wid : x # w => sess'[x] = sess[x] /\ temp'[x] = temp[x]
    <3>1. CASE Reap(w)
      BY <1>1, <3>1, EndSessionDoes DEF Reap, SessTyped, disk
    <3>2. CASE Retire(w, ok)
      BY <1>1, <3>2 DEF Retire, SessTyped, disk
    <3>3. QED
      BY <1>8, <3>1, <3>2
  <2>2. sess[w].open \/ sess[w].owed
    BY <1>8 DEF Reap, Retire
  <2>3. job.op = "wopen" => job.wid # w
    BY <2>2 DEF Sessions, FreeWid
  <2>4. job.op = "wcommit" => job.wid # w
    <3>1. CASE Reap(w)
      BY <3>1, NoneJob DEF Reap
    <3>2. CASE Retire(w, ok)
      BY <3>2 DEF Retire, Sessions, Staged
    <3>3. QED
      BY <1>8, <3>1, <3>2
  <2>5. QED
    BY <1>2, <2>1, <2>3, <2>4 DEF Staged, At
<1>9. ASSUME Request PROVE Rest'
  <2>1. ASSUME NEW d \in Digest, NEW w \in Wid, NEW sweep \in BOOLEAN,
               \/ PutBegin(d) \/ DeleteBegin(d) \/ WopenBegin(d, w) \/ ScanBegin(sweep)
        PROVE  Rest'
    <3>1. job'.op # "wcommit" /\ job'.phase \in {"clear", "write", "unlink", "sweep"}
      BY <2>1 DEF PutBegin, DeleteBegin, WopenBegin, ScanBegin, Hold
    <3>2. QED
      BY <3>1 DEF At
  <2>2. ASSUME NEW w \in Wid, WcommitBegin(w) PROVE Rest'
    <3>1. CASE Arrived(w)
      BY <2>2, <3>1 DEF WcommitBegin, Hold, Arrived, At
    <3>2. CASE ~Arrived(w)
      BY <1>6, <2>2, <3>2, NoneJob DEF WcommitBegin, Idle
    <3>3. QED
      BY <3>1, <3>2
  <2>3. ASSUME NEW d \in Digest, NEW w \in Wid, NEW right \in BOOLEAN, NEW ok \in BOOLEAN,
               \/ PutIndexed(d) \/ Get(d) \/ ReadRange(d) \/ HeadBody(d)
               \/ Wappend(w, right, ok) \/ Wabort(w)
        PROVE  Rest'
    BY <1>6, <2>3, NoneJob DEF PutIndexed, Get, ReadRange, HeadBody, Wappend, Wabort, Idle
  <2>4. QED
    BY <1>9, <2>1, <2>2, <2>3, NamesAssumption DEF Request
<1>10. ASSUME Poll PROVE Rest'
  <2>1. ASSUME job.op \in {"put", "delete"}, NEW phase \in Phase \ {"publish"}, Goto(phase)
        PROVE  Rest'
    BY <1>1, <2>1, GotoJob DEF At
  <2>2. ASSUME NEW ok \in BOOLEAN,
               \/ PutClear(ok) \/ PutPublish(ok) \/ PutDiscard(ok) \/ DeleteUnlink(ok)
               \/ DeleteFence(ok)
        PROVE  Rest'
    BY <1>5, <2>1, <2>2
       DEF PutClear, PutPublish, PutDiscard, DeleteUnlink, DeleteFence, Acknowledge, Retired, At,
           Phase
  <2>3. ASSUME NEW ok \in BOOLEAN, PutFence(ok) PROVE Rest'
    <3>1. CASE ok
      <4>1. Goto("publish") /\ staging'[job.digest] = "whole" /\ job.op = "put"
        BY <1>1, <1>2, <1>3, <2>3, <3>1 DEF PutFence, DiskTyped, At
      <4>2. job'.op = "put" /\ job'.digest = job.digest
        BY <1>1, <4>1, GotoJob DEF Phase
      <4>3. QED
        BY <4>1, <4>2 DEF At
    <3>2. CASE ~ok
      BY <1>3, <2>1, <2>3, <3>2 DEF PutFence, At, Phase
    <3>3. QED
      BY <3>1, <3>2
  <2>4. ASSUME NEW ok \in BOOLEAN, WopenClear(ok) PROVE Rest'
    <3>1. Goto("create") /\ temp'[job.wid] = "none" /\ job.op = "wopen"
      BY <1>1, <1>2, <2>4 DEF WopenClear, Failing, SessTyped, At
    <3>2. job'.op = "wopen" /\ job'.wid = job.wid
      BY <1>1, <3>1, GotoJob DEF Phase
    <3>3. QED
      BY <3>1, <3>2 DEF At
  <2>5. ASSUME NEW ok \in BOOLEAN, WcommitFence(ok) PROVE Rest'
    <3>1. CASE ok
      <4>1. Goto("publish") /\ sess' = sess /\ job.op = "wcommit"
        BY <1>3, <2>5, <3>1 DEF WcommitFence, At
      <4>2. job'.op = "wcommit" /\ job'.wid = job.wid
        BY <1>1, <4>1, GotoJob DEF Phase
      <4>3. QED
        BY <4>1, <4>2 DEF At, Staged
    <3>2. CASE ~ok
      BY <1>5, <2>5, <3>2 DEF WcommitFence, WcommitRefused
    <3>3. QED
      BY <3>1, <3>2
  <2>6. ASSUME WcommitCopy PROVE Rest'
    BY <2>6 DEF WcommitCopy, At, Staged
  <2>7. ASSUME NEW ok \in BOOLEAN, WcommitCopied(ok) PROVE Rest'
    <3>1. CASE ok
      <4>1. Goto("name") /\ sess' = sess /\ job.op = "wcommit"
        BY <2>7, <3>1 DEF WcommitCopied, At
      <4>2. job'.op = "wcommit" /\ job'.wid = job.wid
        BY <1>1, <4>1, GotoJob DEF Phase
      <4>3. QED
        BY <4>1, <4>2 DEF At, Staged
    <3>2. CASE ~ok
      BY <1>5, <2>7, <3>2 DEF WcommitCopied, WcommitRefused
    <3>3. QED
      BY <3>1, <3>2
  <2>8. ASSUME NEW ok \in BOOLEAN,
               WopenCreate(ok) \/ WcommitRename(ok) \/ WcommitName(ok) \/ DeleteProbe \/ ScanPage
        PROVE  Rest'
    BY <1>5, <2>8 DEF WopenCreate, WcommitRename, WcommitName, WcommitRefused, Acknowledge,
                      DeleteProbe, Retired, ScanPage
  <2>9. ASSUME NEW d \in Digest, NEW w \in Wid, NEW ok \in BOOLEAN,
               ScanBody(d) \/ ScanStaging(d, ok) \/ ScanTemp(w, ok)
        PROVE  Rest'
    BY <1>6, <2>9 DEF ScanBody, ScanStaging, ScanTemp, At
  <2>10. QED
    BY <1>7, <1>10, <2>2, <2>3, <2>4, <2>5, <2>6, <2>7, <2>8, <2>9, NamesAssumption DEF Poll
<1>11. ASSUME Crash PROVE Rest'
  BY <1>5, <1>11 DEF Crash
<1>12. Rest'
  BY <1>8, <1>9, <1>10, <1>11 DEF Next
<1>13. QED
  BY <1>4, <1>12 DEF Staged, At

\* Where the provider renames and fences names, and its name fences do not fail: a
\* body acknowledged deleted does not come back, across any number of crashes and
\* repeated deletions, until it is written again (DEL_FENCE, DEL_PROBE).
THEOREM RetiredStayGone ==
    ASSUME "name" \notin Faults
    PROVE  Spec => []RetiredGone
<1> DEFINE Inv == Typed /\ Sessions /\ (ByRename => Gone)
<1>1. Init => (ByRename => Gone)
  BY NoneJob DEF Init, Gone, At
<1>2. Typed /\ (ByRename => Gone) /\ [Next]_vars => (ByRename => Gone)'
  <2> SUFFICES ASSUME Typed, ByRename => Gone, [Next]_vars, ByRename' PROVE Gone'
    OBVIOUS
  <2>1. CASE Next
    <3>1. ByRename
      BY <2>1, NextHistory DEF ByRename
    <3>2. QED
      BY <2>1, <3>1, NextGone
  <2>2. CASE UNCHANGED vars
    BY <2>2 DEF vars, ByRename, Gone, At
  <2>3. QED
    BY <2>1, <2>2
<1>3. (ByRename => Gone) => RetiredGone
  BY DEF Gone, RetiredGone
<1>4. QED
  BY <1>1, <1>2, <1>3, Inductive, PTL DEF Spec

\* Where the provider renames and fences names, and neither its name fences nor
\* its removals fail, whatever writes and renames do: a body acknowledged stored,
\* keyed or not, is whole and would be after a crash until its deletion is asked
\* for, and no read answers bytes that do not hash to the name (poll_blob,
\* handle_wcommit, handle_get).
THEOREM StoredStayWhole ==
    ASSUME "name" \notin Faults, "unlink" \notin Faults
    PROVE  Spec => []WholeByRename
<1>1. Init => (ByRename => Gone /\ Whole)
  BY NoneJob DEF Init, Gone, Whole, Stored, Staged, At, Closed
<1>2. Typed /\ Sessions /\ (ByRename => Gone /\ Whole) /\ [Next]_vars
        => (ByRename => Gone /\ Whole)'
  <2> SUFFICES ASSUME Typed, Sessions, ByRename => Gone /\ Whole, [Next]_vars, ByRename'
               PROVE  Gone' /\ Whole'
    OBVIOUS
  <2>1. CASE Next
    <3>1. ByRename
      BY <2>1, NextHistory DEF ByRename
    <3>2. QED
      BY <2>1, <3>1, NextGone, NextStored, NextStaged, NextServed DEF Whole
  <2>2. CASE UNCHANGED vars
    BY <2>2 DEF vars, ByRename, Gone, Whole, Stored, Staged, At
  <2>3. QED
    BY <2>1, <2>2
<1>3. (ByRename => Gone /\ Whole) => WholeByRename
  BY DEF Whole, Stored, WholeByRename
<1>4. QED
  BY <1>1, <1>2, <1>3, Inductive, PTL DEF Spec
===============================================================================
