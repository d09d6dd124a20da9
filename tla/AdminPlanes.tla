---------------------------- MODULE AdminPlanes ----------------------------
(***************************************************************************)
(* The three planes behind the admin_router, as its requests meet them:    *)
(* the namespace (namespace_pic_body.rs), the body plane (body_store_body. *)
(* rs, behind a router or not) and the object index (object_pic_body.rs).  *)
(* Each operation takes a plane's state and a request and gives the state  *)
(* after it and the answer.  Names are numbers: a digest stands for the    *)
(* bytes it is the digest of, the id sha256:<hex> of those bytes and, for  *)
(* a map page, the digests that page lists.                                *)
(***************************************************************************)
EXTENDS Naturals, SequencesExt

CONSTANTS
    NKeys, NDigests,  \* keys in the namespace's order; digests in the store's
    Child,            \* the digests each map page lists
    Deep,             \* the roots whose children are leaf pages
    ReserveMax,       \* GC_RESERVE_MAX
    Window,           \* REF_SCAN_PER_CALL, ROOTS_SCAN_PER_CALL
    Page,             \* MAX_SCAN_DIGESTS, MAX_OBJ_SCAN
    Wids              \* a body plane's write sessions

Key == 1..NKeys
Digest == 1..NDigests
None == 0

ASSUME SizesAssumption ==
    {NKeys, NDigests, ReserveMax, Window, Page, Wids} \subseteq Nat \ {0}
ASSUME MapAssumption == Child \in [Digest -> SUBSET Digest] /\ Deep \subseteq Digest

\* A finite set of numbers, in order (SetToSortSeq, which takes an operator and
\* which the prover cannot read).
InOrder(S) ==
    CHOOSE f \in [1..Cardinality(S) -> S] :
       \A i, j \in 1..Cardinality(S) : i < j => f[i] < f[j]

-----------------------------------------------------------------------------
(* The namespace.  A volume's lease is held by its one writer until it      *)
(* lapses (VolumeLease has the leases); held is a retention or a hold that  *)
(* stands at every stamp used.                                              *)

Binding == [rev : Nat, obj : 0..NDigests, vol : BOOLEAN, held : BOOLEAN]
Unbound == [rev |-> 0, obj |-> None, vol |-> FALSE, held |-> FALSE]
NewNamespace == [bind |-> [k \in Key |-> Unbound], reserved |-> {}, flush |-> "none",
                 view |-> 0]
Flush == {"none", "open", "lapsed"}

NsReq(op, cid) == [op |-> op, cid |-> cid, key |-> 1, dig |-> None, rev |-> 0, cond |-> FALSE,
                   held |-> FALSE, at |-> 0]
NsAns(v) == [v |-> v, rev |-> 0, obj |-> None, yes |-> FALSE, next |-> 0, view |-> 0,
             roots |-> <<>>]
Said(n, v) == [n |-> n, a |-> NsAns(v)]
Put(n, k, b) == [n |-> [n EXCEPT !.bind[k] = b], a |-> NsAns("ok")]

\* A bind's verdict, in the order apply_op decides it.
NsBind(n, q) ==
    LET b == n.bind[q.key]
    IN  CASE q.dig \in n.reserved -> Said(n, "reserved")
          [] q.dig \notin n.reserved /\ b.vol -> Said(n, "fenced")
          [] q.dig \notin n.reserved /\ ~b.vol /\ q.rev <= b.rev ->
                Said(n, IF q.rev = b.rev /\ q.dig = b.obj THEN "ok" ELSE "stale")
          [] OTHER ->
                IF q.cond /\ q.rev # b.rev + 1 THEN Said(n, "condition")
                ELSE IF b.held THEN Said(n, "retained")
                ELSE Put(n, q.key, [rev |-> q.rev, obj |-> q.dig, vol |-> FALSE,
                                    held |-> q.held])

NsUnbind(n, q) ==
    LET b == n.bind[q.key]
    IN  CASE b.vol -> Said(n, "fenced")
          [] b.obj = None -> Said(n, IF b.rev = q.rev THEN "ok" ELSE "nak")
          [] ~b.vol /\ b.obj # None ->
                IF q.rev <= b.rev THEN Said(n, "stale")
                ELSE IF q.rev # b.rev + 1 THEN Said(n, "condition")
                ELSE IF b.held THEN Said(n, "retained")
                ELSE Put(n, q.key, [Unbound EXCEPT !.rev = q.rev])

\* A reservation does not refuse it: apply_retain reads no reservation.
NsRetain(n, q) ==
    LET b == n.bind[q.key]
    IN  CASE q.rev <= b.rev -> Said(n, "stale")
          [] q.rev > b.rev /\ (q.rev # b.rev + 1 \/ b.obj = None) -> Said(n, "condition")
          [] OTHER -> IF b.vol THEN Said(n, "fenced")
                      ELSE Put(n, q.key, IF b.held THEN b
                                         ELSE [b EXCEPT !.rev = q.rev, !.held = TRUE])

NsLookup(n, q) ==
    LET b == n.bind[q.key]
    IN  [n |-> n, a |-> [NsAns(IF b.obj = None THEN "not_found" ELSE "found")
                            EXCEPT !.rev = b.rev, !.obj = b.obj]]

\* Deciding a reservation ends the flushes whose writers' leases lapsed.
NsReserve(n, q) ==
    LET m == [n EXCEPT !.flush = IF @ = "lapsed" THEN "none" ELSE @,
                       !.reserved = IF Cardinality(@) < ReserveMax THEN @ \cup {q.dig} ELSE @]
    IN  [n |-> m, a |-> [NsAns("ok") EXCEPT !.yes = q.dig \in m.reserved]]
NsRelease(n, q) == Said([n EXCEPT !.reserved = @ \ {q.dig}], "ok")

PageEnd(at) == IF at + Window < NKeys THEN at + Window ELSE NKeys
Scanned(at) == (at + 1)..PageEnd(at)
Cursor(at) == IF PageEnd(at) < NKeys THEN PageEnd(at) ELSE 0

\* The code reads the arena whole on the first page and the generation page by
\* page, whichever is open by then; here a page is the view of its keys.  A record
\* keeps its place or moves to a later one when a generation is written (a deleted
\* key's record stays), no bind of the id is admitted, and a retention leaves its
\* key in place: what the code finds on one page, the view of the keys finds on
\* that page or a later one, unless it is deleted by then.  A RENAME can move a
\* binding behind the cursor; the router sends none.
NsReferenced(n, q) ==
    LET yes == n.flush # "none" \/ \E k \in Scanned(q.at) : n.bind[k].obj = q.dig
    IN  [n |-> n, a |-> [NsAns("ok") EXCEPT !.yes = yes,
                                            !.next = IF yes THEN 0 ELSE Cursor(q.at)]]

NsRetained(n, q) ==
    LET yes == \E k \in Scanned(q.at) : n.bind[k].obj = q.dig /\ n.bind[k].held
    IN  [n |-> n, a |-> [NsAns("ok") EXCEPT !.yes = yes,
                                            !.next = IF yes THEN 0 ELSE Cursor(q.at)]]

NsRoots(n, q) ==
    LET keys == InOrder({k \in Scanned(q.at) : n.bind[k].vol})
    IN  [n |-> n, a |-> [NsAns("ok") EXCEPT !.next = Cursor(q.at), !.view = n.view,
                                            !.roots = [i \in DOMAIN keys |->
                                                          n.bind[keys[i]].obj]]]

NsBegin(n, q) == IF n.flush = "lapsed" THEN Said(n, "lost")
                 ELSE IF n.reserved # {} THEN Said(n, "reserved")
                 ELSE Said([n EXCEPT !.flush = "open"], "ok")

NsCommit(n, q) ==
    LET b == n.bind[q.key]
    IN  CASE n.flush # "open" -> Said(n, "lost")
          [] n.flush = "open" /\ q.rev # b.rev + 1 -> Said(n, "conflict")
          [] OTHER -> IF b.held THEN Said(n, "retained")
                      ELSE Put([n EXCEPT !.flush = "none"], q.key,
                               [rev |-> q.rev, obj |-> q.dig, vol |-> TRUE, held |-> FALSE])

NsApply(n, q) ==
    CASE q.op = "bind" -> NsBind(n, q)
      [] q.op = "unbind" -> NsUnbind(n, q)
      [] q.op = "retain" -> NsRetain(n, q)
      [] q.op = "lookup" -> NsLookup(n, q)
      [] q.op = "reserve" -> NsReserve(n, q)
      [] q.op = "release" -> NsRelease(n, q)
      [] q.op = "referenced" -> NsReferenced(n, q)
      [] q.op = "retained" -> NsRetained(n, q)
      [] q.op = "roots" -> NsRoots(n, q)
      [] q.op = "begin" -> NsBegin(n, q)
      [] q.op = "commit" -> NsCommit(n, q)
      [] OTHER -> Said(n, "ok")   \* a listing, a lease

\* What a bound key reaches: its object and, of a volume, its map.
Reached(n) ==
    LET bound == {n.bind[k].obj : k \in {j \in Key : n.bind[j].obj # None}}
        roots == {n.bind[k].obj : k \in {j \in Key : n.bind[j].vol}}
        pages == UNION {Child[d] : d \in roots}
    IN  bound \cup pages \cup UNION {UNION {Child[e] : e \in Child[d]} : d \in roots \cap Deep}

-----------------------------------------------------------------------------
(* The body plane.                                                          *)

NewBodies(held) == [held |-> held, keyed |-> {}, sess |-> [w \in 1..Wids |-> None]]

BodyReq(op, cid, d) == [op |-> op, cid |-> cid, dig |-> d, wid |-> None, id |-> 0]
BodyAns(v) == [v |-> v, page |-> <<>>, next |-> 0, wid |-> None, dig |-> None]
Large(q) == q.op \in {"put", "put_keyed", "wappend"}

\* The names past a cursor, at most a page of them.
PageOf(S, at) == LET all == InOrder({d \in Digest : d \in S /\ d > at})
                 IN  SubSeq(all, 1, IF Page < Len(all) THEN Page ELSE Len(all))
NextOf(S, at) == LET page == PageOf(S, at)
                 IN  IF \E d \in S : d > at /\ \A i \in DOMAIN page : page[i] < d
                     THEN page[Len(page)] ELSE 0

FreeWids(b) == {w \in 1..Wids : b.sess[w] = None}

BodyApply(b, q) ==
    CASE q.op = "put" -> [b |-> [b EXCEPT !.held = @ \cup {q.dig}],
                          a |-> [BodyAns("ok") EXCEPT !.dig = q.dig]]
      [] q.op = "put_keyed" -> [b |-> [b EXCEPT !.held = @ \cup {q.dig},
                                                !.keyed = @ \cup {q.dig}], a |-> BodyAns("ok")]
      [] q.op = "get" -> [b |-> b, a |-> IF q.dig \in b.held
                                         THEN [BodyAns("ok") EXCEPT !.dig = q.dig]
                                         ELSE BodyAns("not_found")]
      [] q.op = "delete" -> [b |-> [b EXCEPT !.held = @ \ {q.dig}, !.keyed = @ \ {q.dig}],
                             a |-> BodyAns("ok")]
      [] q.op = "scan" -> [b |-> b, a |-> [BodyAns("ok") EXCEPT
                              !.page = InOrder(ToSet(PageOf(b.held, q.dig)) \ b.keyed),
                              !.next = NextOf(b.held, q.dig)]]
      [] q.op = "wopen" ->
            IF FreeWids(b) = {} THEN [b |-> b, a |-> BodyAns("nak")]
            ELSE LET w == CHOOSE w \in FreeWids(b) : \A v \in FreeWids(b) : w <= v
                 IN  [b |-> [b EXCEPT !.sess[w] = q.dig],
                      a |-> [BodyAns("ok") EXCEPT !.wid = w]]
      [] q.op = "wappend" ->
            [b |-> b, a |-> BodyAns(IF b.sess[q.wid] = None THEN "nak" ELSE "ok")]
      [] OTHER ->   \* "wcommit"
            IF b.sess[q.wid] = None THEN [b |-> b, a |-> BodyAns("nak")]
            ELSE [b |-> [b EXCEPT !.held = @ \cup {b.sess[q.wid]}, !.sess[q.wid] = None],
                  a |-> [BodyAns("ok") EXCEPT !.dig = b.sess[q.wid]]]

-----------------------------------------------------------------------------
(* The object index: the descriptors it keeps.                              *)

ObjReq(op, d) == [op |-> op, dig |-> d]
ObjAns(v) == [v |-> v, page |-> <<>>, next |-> 0]

ObjApply(o, q) ==
    CASE q.op = "put" -> [o |-> o \cup {q.dig}, a |-> ObjAns("ok")]
      [] q.op = "remove" -> [o |-> o \ {q.dig},
                             a |-> ObjAns(IF q.dig \in o THEN "ok" ELSE "absent")]
      [] q.op = "scan" -> [o |-> o, a |-> [ObjAns("ok") EXCEPT !.page = PageOf(o, q.dig),
                                                               !.next = NextOf(o, q.dig)]]
=============================================================================
