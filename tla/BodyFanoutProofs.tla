-------------------------- MODULE BodyFanoutProofs --------------------------
(***************************************************************************)
(* Proofs about BodyFanout, for any number of members, clients, joins and  *)
(* requests, and any faults: without streams, an acknowledged write is on  *)
(* every member it was for, no request is answered twice, and no body that *)
(* is surely there is denied.  With streams the first is false, as         *)
(* FanoutStreams.cfg shows.                                                *)
(*                                                                         *)
(* A handler is an operator on router states, so each has a lemma: from a  *)
(* good router it makes a good one.  H is who holds what while a handler   *)
(* runs.  A handler works on one join, whose write may be half counted:    *)
(* Puts(S, H, i) is for all writes but that of slot i.                     *)
(***************************************************************************)
EXTENDS BodyFanout, TLAPS, FiniteSetTheorems, SequenceTheorems, NaturalsInduction

-----------------------------------------------------------------------------
(* Sequences and numbers                                                    *)

\* The least number of a set.
LEMMA LeastNat ==
    ASSUME NEW S, S \subseteq Nat, S # {}
    PROVE  LET x == CHOOSE n \in S : \A k \in S : n <= k
           IN  x \in S /\ \A k \in S : x <= k
<1>1. PICK x \in S : \A y \in S : ~(<<y, x>> \in OpToRel(<, Nat))
  BY NatLessThanWellFounded, WFMin
<1>2. ASSUME NEW y \in S PROVE x <= y
  <2>1. ~(y < x)
    BY <1>1 DEF OpToRel
  <2>2. QED
    BY <2>1
<1>3. QED
  BY <1>1, <1>2

\* A set of numbers that is closed under the step from one to the next has them all.
LEMMA UpTo ==
    ASSUME NEW n \in Nat, NEW S, 0 \in S, \A k \in 1..n : k - 1 \in S => k \in S
    PROVE  \A k \in 0..n : k \in S
<1> DEFINE Out == {k \in 0..n : k \notin S}
           x == CHOOSE m \in Out : \A k \in Out : m <= k
<1> SUFFICES ASSUME Out # {} PROVE FALSE
  OBVIOUS
<1>1. Out \subseteq Nat
  OBVIOUS
<1>2. x \in Out /\ \A k \in Out : x <= k
  <2> HIDE DEF Out
  <2>1. QED
    BY <1>1, LeastNat
<1> HIDE DEF x
<1>3. x \in 1..n /\ x - 1 \in 0..n /\ ~(x <= x - 1)
  BY <1>2
<1>4. x - 1 \in S
  BY <1>2, <1>3
<1>5. QED
  BY <1>2, <1>3, <1>4

\* The results of n steps from a start: after the first k of them, g[k].
IsFold(g, F, x0, n, X) == /\ g \in [0..n -> X] /\ g[0] = x0
                          /\ \A k \in 1..n : g[k] = F[k][g[k - 1]]

\* A step taken n times from a start has the sequence of its results.
LEMMA FoldExists ==
    ASSUME NEW X, NEW x0 \in X, NEW n \in Nat, NEW F \in [1..n -> [X -> X]]
    PROVE  \E g : IsFold(g, F, x0, n, X)
<1> DEFINE Has(g, K) == /\ g \in [0..K -> X] /\ g[0] = x0
                        /\ \A k \in 1..K : g[k] = F[k][g[k - 1]]
           Good0 == {K \in 0..n : \E g : Has(g, K)}
<1>1. 0 \in Good0
  <2> DEFINE g == [k \in 0..0 |-> x0]
  <2>1. Has(g, 0)
    OBVIOUS
  <2> HIDE DEF Has
  <2>2. QED
    BY <2>1
<1>2. ASSUME NEW K \in 1..n, K - 1 \in Good0 PROVE K \in Good0
  <2>1. PICK g : Has(g, K - 1)
    BY <1>2
  <2> DEFINE h == [k \in 0..K |-> IF k = K THEN F[K][g[K - 1]] ELSE g[k]]
  <2>2. K \in 0..n /\ K - 1 \in 0..(K - 1) /\ K # 0 /\ K \in Nat /\ 0 \in 0..K
    OBVIOUS
  <2>3. \A k \in 0..K : k # K => k \in 0..(K - 1) /\ (k # 0 => k \in 1..(K - 1) /\ k - 1 \in 0..K /\ k - 1 # K)
    BY <2>2
  <2>4. h \in [0..K -> X]
    BY <2>1, <2>2, <2>3
  <2>5. h[0] = x0
    BY <2>1, <2>2
  <2>6. \A k \in 1..K : h[k] = F[k][h[k - 1]]
    <3> TAKE k \in 1..K
    <3>1. k \in 0..K /\ k # 0
      OBVIOUS
    <3>2. CASE k = K
      <4>0. K \in 0..K /\ K - 1 \in 0..K /\ K - 1 # K
        BY <2>2
      <4>1. h[K] = F[K][g[K - 1]] /\ h[K - 1] = g[K - 1]
        BY <4>0
      <4>2. QED
        BY <3>2, <4>1
    <3>3. CASE k # K
      <4>1. h[k] = g[k] /\ h[k - 1] = g[k - 1] /\ k \in 1..(K - 1)
        BY <2>3, <3>1, <3>3
      <4>2. QED
        BY <2>1, <4>1
    <3>4. QED
      BY <3>2, <3>3
  <2>7. Has(h, K)
    BY <2>4, <2>5, <2>6
  <2> HIDE DEF h, Has
  <2>8. QED
    BY <2>2, <2>7
<1> HIDE DEF Good0
<1>3. \A K \in 0..n : K \in Good0
  BY <1>1, <1>2, UpTo
<1>4. n \in Good0
  BY <1>3
<1>5. QED
  BY <1>4 DEF Good0, IsFold

\* What a longer sequence holds.
LEMMA AppendEach ==
    ASSUME NEW X, NEW s \in Seq(X), NEW e \in X
    PROVE  \A k \in DOMAIN Append(s, e) : \/ k \in DOMAIN s /\ Append(s, e)[k] = s[k]
                                          \/ Append(s, e)[k] = e
<1>1. /\ Append(s, e) \in Seq(X) /\ Len(Append(s, e)) = Len(s) + 1
      /\ \A k \in 1..Len(s) : Append(s, e)[k] = s[k]
      /\ Append(s, e)[Len(s) + 1] = e
  BY AppendProperties
<1>2. /\ Len(s) \in Nat /\ DOMAIN s = 1..Len(s)
      /\ DOMAIN Append(s, e) = 1..(Len(s) + 1)
  BY <1>1, LenProperties
<1>3. QED
  BY <1>1, <1>2

\* An id that is not in use.
LEMMA FreshNew ==
    ASSUME NEW used, IsFiniteSet(used)
    PROVE  Fresh(used) \in Nat /\ Fresh(used) \notin used
<1> DEFINE m == Cardinality(used) + 1
           S == {n \in 1..m : n \notin used}
           x == CHOOSE n \in S : \A k \in S : n <= k
<1>1. m \in Nat /\ m > Cardinality(used) /\ Cardinality(used) \in Nat
  BY FS_CardinalityType
<1>2. S # {}
  <2> SUFFICES ASSUME 1..m \subseteq used PROVE FALSE
    OBVIOUS
  <2>1. Cardinality(1..m) = m
    BY <1>1, FS_Interval
  <2>2. Cardinality(1..m) <= Cardinality(used)
    BY FS_Subset
  <2>3. QED
    BY <1>1, <2>1, <2>2
<1>3. x \in S /\ \A k \in S : x <= k
  <2>1. S \subseteq Nat
    BY <1>1
  <2> HIDE DEF S
  <2>2. QED
    BY <1>2, <2>1, LeastNat
<1> HIDE DEF x
<1>4. \A k \in 1..(x - 1) : k \in used
  <2> SUFFICES ASSUME NEW k \in 1..(x - 1), k \notin used PROVE FALSE
    OBVIOUS
  <2>1. k \in S /\ k < x
    BY <1>1, <1>3
  <2>2. QED
    BY <1>1, <1>3, <2>1
<1>5. QED
  BY <1>1, <1>3, <1>4 DEF Fresh

\* The members of a sequence that are in a set.
LEMMA OnlyOf ==
    ASSUME NEW X, NEW s \in Seq(X), NEW M
    PROVE  /\ Only(s, M) \in Seq(X)
           /\ \A k \in DOMAIN Only(s, M) : \E n \in DOMAIN s : Only(s, M)[k] = s[n]
           /\ (\E k \in DOMAIN s : s[k] \in M) => Only(s, M) # <<>>
<1> DEFINE N == Len(s)
           Y == {s[n] : n \in DOMAIN s}
           More(x, n) == IF s[n] \in M THEN Append(x, s[n]) ELSE x
           Step0(g) == [n \in 0..N |-> IF n = 0 THEN <<>> ELSE More(g[n - 1], n)]
           F == [n \in 1..N |-> [x \in Seq(Y) |-> More(x, n)]]
           f == CHOOSE g : g = Step0(g)
<1>1. N \in Nat /\ DOMAIN s = 1..N /\ Y \subseteq X
  BY LenProperties, ElementOfSeq
<1>2. Only(s, M) = f[N]
  BY DEF Only
<1>3. \A x \in Seq(Y) : \A n \in 1..N : More(x, n) \in Seq(Y)
  <2> TAKE x \in Seq(Y)
  <2> TAKE n \in 1..N
  <2>1. s[n] \in Y
    BY <1>1
  <2>2. Append(x, s[n]) \in Seq(Y)
    BY <2>1, AppendProperties
  <2>3. QED
    BY <2>2
<1>14. \A x \in Seq(Y) : \A n \in 1..N : (x # <<>> \/ s[n] \in M) => More(x, n) # <<>>
  <2> TAKE x \in Seq(Y)
  <2> TAKE n \in 1..N
  <2>1. s[n] \in Y
    BY <1>1
  <2>2. Append(x, s[n]) # <<>>
    BY <2>1, AppendProperties
  <2>3. QED
    BY <2>2
<1> HIDE DEF More, Y
<1>4. F \in [1..N -> [Seq(Y) -> Seq(Y)]]
  BY <1>3
<1>5. <<>> \in Seq(Y)
  BY EmptySeq
<1>6. PICK g : IsFold(g, F, <<>>, N, Seq(Y))
  <2> HIDE DEF F, N
  <2>1. QED
    BY <1>1, <1>4, <1>5, FoldExists, Zenon
<1>7. g = Step0(g)
  <2>1. \A n \in 0..N : g[n] = Step0(g)[n]
    <3> TAKE n \in 0..N
    <3>1. CASE n = 0
      BY <1>6, <3>1 DEF IsFold
    <3>2. CASE n # 0
      <4>1. n \in 1..N /\ n - 1 \in 0..N
        BY <1>1, <3>2
      <4>2. g[n] = F[n][g[n - 1]] /\ g[n - 1] \in Seq(Y)
        BY <1>6, <4>1 DEF IsFold
      <4>3. QED
        BY <3>2, <4>1, <4>2
    <3>3. QED
      BY <3>1, <3>2
  <2>2. QED
    BY <1>6, <2>1 DEF IsFold
<1>8. f = Step0(f)
  BY <1>7
<1> HIDE DEF f, F
<1>9. \A n \in 0..N : f[n] \in Seq(Y) /\ ((\E k \in 1..n : s[k] \in M) => f[n] # <<>>)
  <2> DEFINE Good0 == {n \in 0..N : f[n] \in Seq(Y) /\ ((\E k \in 1..n : s[k] \in M) => f[n] # <<>>)}
  <2>1. 0 \in Good0
    BY <1>1, <1>5, <1>8
  <2>2. ASSUME NEW n \in 1..N, n - 1 \in Good0 PROVE n \in Good0
    <3>1. n \in 0..N /\ n # 0 /\ f[n - 1] \in Seq(Y)
          /\ ((\E k \in 1..(n - 1) : s[k] \in M) => f[n - 1] # <<>>)
      BY <1>1, <2>2
    <3>2. f[n] = More(f[n - 1], n)
      BY <1>8, <3>1
    <3>3. (\E k \in 1..n : s[k] \in M) => s[n] \in M \/ \E k \in 1..(n - 1) : s[k] \in M
      BY <1>1, <3>1
    <3>4. f[n] \in Seq(Y)
      BY <1>3, <3>1, <3>2
    <3>5. ASSUME \E k \in 1..n : s[k] \in M PROVE f[n] # <<>>
      <4>1. f[n - 1] # <<>> \/ s[n] \in M
        BY <3>1, <3>3, <3>5
      <4>2. More(f[n - 1], n) # <<>>
        BY <1>14, <3>1, <4>1
      <4>3. QED
        BY <3>2, <4>2
    <3>6. QED
      BY <3>1, <3>4, <3>5
  <2> HIDE DEF Good0
  <2>3. \A n \in 0..N : n \in Good0
    BY <1>1, <2>1, <2>2, UpTo
  <2>4. QED
    BY <2>3 DEF Good0
<1>10. Only(s, M) \in Seq(Y) /\ ((\E k \in DOMAIN s : s[k] \in M) => Only(s, M) # <<>>)
  <2>1. N \in 0..N
    BY <1>1
  <2>2. QED
    BY <1>1, <1>2, <1>9, <2>1
<1>11. Only(s, M) \in Seq(X)
  BY <1>1, <1>10, SeqMonotonic
<1>12. \A k \in DOMAIN Only(s, M) : Only(s, M)[k] \in Y
  BY <1>10, ElementOfSeq, LenProperties
<1>13. QED
  BY <1>10, <1>11, <1>12 DEF Y

\* The replica set of a name.
LEMMA TargetsOf ==
    ASSUME NEW S, NEW r \in Seq(Member)
    PROVE  RankTargets(S, r) \in Seq(Member)
<1> DEFINE live == Only(r, S.fleet)
           n == IF Replicas < Len(live) THEN Replicas ELSE Len(live)
<1>1. live \in Seq(Member)
  BY OnlyOf
<1> HIDE DEF live
<1>2. Len(live) \in Nat /\ n \in Nat /\ n <= Len(live)
  BY <1>1, LenProperties, SizesAssumption
<1>3. SubSeq(live, 1, n) \in Seq(Member)
  <2>1. \A i \in 1..n : i \in 1..Len(live)
    BY <1>2
  <2>2. QED
    BY <1>1, <1>2, <2>1, SubSeqProperties
<1>4. QED
  BY <1>3 DEF RankTargets, live

\* Quiet members are put last, and nobody is added.
LEMMA QuietLastOf ==
    ASSUME NEW S, NEW t \in Seq(Member)
    PROVE  /\ QuietLast(S, t) \in Seq(Member)
           /\ \A k \in DOMAIN QuietLast(S, t) : \E n \in DOMAIN t : QuietLast(S, t)[k] = t[n]
           /\ QuietLast(S, t) = <<>> => t = <<>>
<1> DEFINE a == Only(t, Member \ S.quiet)
           b == Only(t, S.quiet)
<1>1. /\ a \in Seq(Member) /\ \A k \in DOMAIN a : \E n \in DOMAIN t : a[k] = t[n]
      /\ b \in Seq(Member) /\ \A k \in DOMAIN b : \E n \in DOMAIN t : b[k] = t[n]
  <2>1. a \in Seq(Member) /\ \A k \in DOMAIN a : \E n \in DOMAIN t : a[k] = t[n]
    <3> DEFINE M0 == Member \ S.quiet
    <3> HIDE DEF M0
    <3>1. Only(t, M0) \in Seq(Member) /\ \A k \in DOMAIN Only(t, M0) : \E n \in DOMAIN t : Only(t, M0)[k] = t[n]
      BY OnlyOf
    <3>2. QED
      BY <3>1 DEF M0
  <2>2. b \in Seq(Member) /\ \A k \in DOMAIN b : \E n \in DOMAIN t : b[k] = t[n]
    BY OnlyOf
  <2>3. QED
    BY <2>1, <2>2
<1> HIDE DEF a, b
<1>2. /\ a \o b \in Seq(Member) /\ Len(a \o b) = Len(a) + Len(b)
      /\ Len(a) \in Nat /\ Len(b) \in Nat
      /\ DOMAIN a = 1..Len(a) /\ DOMAIN b = 1..Len(b) /\ DOMAIN (a \o b) = 1..Len(a \o b)
      /\ \A k \in 1..(Len(a) + Len(b)) : (a \o b)[k] = IF k <= Len(a) THEN a[k] ELSE b[k - Len(a)]
  BY <1>1, ConcatProperties, LenProperties
<1>3. \A k \in DOMAIN (a \o b) : \E n \in DOMAIN t : (a \o b)[k] = t[n]
  <2> TAKE k \in DOMAIN (a \o b)
  <2>1. CASE k <= Len(a)
    BY <1>1, <1>2, <2>1
  <2>2. CASE k > Len(a)
    <3>1. k - Len(a) \in DOMAIN b /\ (a \o b)[k] = b[k - Len(a)]
      BY <1>2, <2>2
    <3>2. QED
      BY <1>1, <3>1
  <2>3. QED
    BY <1>2, <2>1, <2>2
<1>4. ASSUME a \o b = <<>> PROVE t = <<>>
  <2>1. a = <<>> /\ b = <<>>
    BY <1>1, <1>4, ConcatEqualIffEmpty, ConcatProperties, EmptySeq
  <2>2. ASSUME NEW k \in DOMAIN t PROVE FALSE
    <3>1. t[k] \in Member
      BY ElementOfSeq, LenProperties
    <3>2. CASE t[k] \in S.quiet
      BY <2>1, <2>2, <3>2, OnlyOf DEF b
    <3>3. CASE t[k] \notin S.quiet
      <4> DEFINE M0 == Member \ S.quiet
      <4>1. t[k] \in M0
        BY <3>1, <3>3
      <4> HIDE DEF M0
      <4>2. Only(t, M0) # <<>>
        BY <2>2, <4>1, OnlyOf
      <4>3. QED
        BY <2>1, <4>2 DEF a, M0
    <3>4. QED
      BY <3>2, <3>3
  <2>3. Len(t) = 0
    BY <2>2, LenProperties
  <2>4. QED
    BY <2>3, EmptySeq
<1>5. QED
  BY <1>2, <1>3, <1>4 DEF QuietLast, a, b

-----------------------------------------------------------------------------
(* What the router keeps when nobody opens a stream.                         *)

\* Nobody opens a stream.
Streamless == \A c \in Configs : "wopen" \notin c.ops

\* Requests by what they do, and the joins that owe a client an answer.
PutOp == {"put", "put_keyed"}
ReadOp == {"get", "head", "range"}
PlainOp == PutOp \cup ReadOp \cup {"delete", "scan"}
Asking == {"client", "admin_scan"}

\* Well-formed joins, answers awaited, requests, letters, clients' requests,
\* answers and routers.
JoinSet == [kind : {"free", "client", "repair", "admin_scan", "scan", "probe", "fetch"},
            op : PlainOp \cup {None}, name : Name \cup {None}, client : Client \cup {None},
            gen : {0, 1}, need : Nat, ack : Nat, fail : Nat, targets : Seq(Member),
            attempt : Nat \ {0}, missing : SUBSET Member, present : SUBSET Member,
            errno : Errno \cup {None}, sid : {0}, repair : Seq(Member)]
AwaitSet == [cid : Nat, to : Member, join : 1..Joins, gen : {0, 1}]
ReqSet == {r \in [op : PlainOp, name : Name \cup {None}, wid : {0}] : r.op # "scan" => r.name \in Name}
LetterSet == [cid : Nat, req : ReqSet]
AskSet == [op : PlainOp \cup {None}, name : Name \cup {None}, on : SUBSET Member,
           lost : SUBSET Member, sure : BOOLEAN]
OutSet == [client : Client, req : AskSet, ans : Errno \cup {Ok}]
RouterSet == [joins : [1..Joins -> JoinSet], await : SUBSET AwaitSet,
              q : [Member -> Seq(LetterSet)], stuck : SUBSET Member, owed : SUBSET Member,
              stalled : SUBSET Member, quiet : SUBSET Member, broken : SUBSET Member,
              streams : [1..Sids -> {FreeStream}], fleet : SUBSET Member, scrubAt : Member,
              scrubBusy : BOOLEAN, asked : [Client -> AskSet], mine : [Client -> {0}],
              sent : [Client -> BOOLEAN], out : Seq(OutSet)]

\* The answers a join still waits for.
Waits(S, i) == {a \in S.await : a.join = i /\ a.gen = 1}
\* The joins of reads and of writes.
IsRead(j) == j.kind = "client" /\ j.op \in ReadOp
IsPut(j) == j.kind = "client" /\ j.op \in PutOp

\* No two answers come under one id.
AwaitGood(S) ==
    /\ IsFiniteSet(S.await)
    /\ \A a, b \in S.await : a.to = b.to /\ a.cid = b.cid => a = b

\* What was sent for a join, and is not yet served, is what the join is about.
LettersGood(S, i, j) ==
    \A a \in Waits(S, i) : \A k \in DOMAIN S.q[a.to] :
        S.q[a.to][k].cid = a.cid => S.q[a.to][k].req.op = j.op /\ S.q[a.to][k].req.name = j.name

\* A client's join is about its request, and has not been told that what is
\* surely there is not.
AskerGood(S, j) ==
    /\ j.client \in Client
    /\ S.asked[j.client].op = j.op /\ S.asked[j.client].name = j.name
    /\ S.asked[j.client].sure => j.errno # "not_found"

\* A read waits for the member its walk has come to and nobody else; if it is
\* sure to find the body, every member of the walk has it.  H is who holds
\* what, a pair <<name, member>> each.
WalkGood(S, H, i, j) ==
    /\ S.asked[j.client].sure => \A k \in DOMAIN j.targets : <<j.name, j.targets[k]>> \in H
    /\ \A a \in Waits(S, i) : /\ j.attempt \in DOMAIN j.targets
                              /\ j.targets[j.attempt] = a.to
                              /\ \A b \in Waits(S, i) : a = b

\* A join at its slot.
JoinGood(S, H, i, j) ==
    /\ j.kind = "free" => j.gen = 0 /\ Waits(S, i) = {}
    /\ j.kind # "free" => /\ j.gen = 1 /\ j.op \in PlainOp
                          /\ j.op # "scan" => j.name \in Name
                          /\ LettersGood(S, i, j)
    /\ j.kind \in Asking => AskerGood(S, j)
    /\ j.kind = "admin_scan" => j.op = "scan"
    /\ j.op = "scan" => j.kind \in {"scan", "admin_scan"}
    /\ IsRead(j) => WalkGood(S, H, i, j)

\* A client has one join.
OneJoin(S) == \A i, k \in 1..Joins :
                 /\ S.joins[i].kind \in Asking /\ S.joins[k].kind \in Asking
                 /\ S.joins[i].client = S.joins[k].client
                 => i = k

\* An answer is for somebody, tells a writer the truth, and denies nothing
\* that is surely there.
OutGood(e, H) ==
    /\ e.req.op # None
    /\ e.ans = Ok /\ e.req.op \in PutOp => {e.req.name} \X (e.req.on \ e.req.lost) \subseteq H
    /\ ~(e.ans = "not_found" /\ e.req.sure)

\* A good router, but for its writes.
Base(S, H) ==
    /\ S \in RouterSet
    /\ AwaitGood(S)
    /\ \A i \in 1..Joins : JoinGood(S, H, i, S.joins[i])
    /\ OneJoin(S)
    /\ \A k \in DOMAIN S.out : OutGood(S.out[k], H)

\* A member is accounted for: it was asked, it has the body, or it lost it.
Covered(S, H, i, m) ==
    \/ \E a \in Waits(S, i) : a.to = m
    \/ <<S.joins[i].name, m>> \in H
    \/ m \in S.asked[S.joins[i].client].lost

\* A write of which no request failed has an answer to come from each member it is for
\* that does not hold the body, and needs them all.
PutGood(S, H, i) ==
    IsPut(S.joins[i]) /\ S.joins[i].fail = 0 =>
        /\ S.joins[i].ack + Cardinality(Waits(S, i)) <= S.joins[i].need
        /\ \A m \in S.asked[S.joins[i].client].on : Covered(S, H, i, m)
\* The same of all but the one of slot x; of all of them if x is 0.
Puts(S, H, x) == \A i \in 1..Joins : i # x => PutGood(S, H, i)

\* Who holds what.
Pairs(st) == {p \in Name \X Member : p[1] \in st[p[2]]}

\* The answers given were right, and those to come will be.
Held == /\ Base(rt, Pairs(stored)) /\ Puts(rt, Pairs(stored), 0) /\ rt.out = <<>>
        /\ acked \subseteq Pairs(stored) /\ wrong = {}
\* Members hold names, finitely many.
Stores == stored \in [Member -> SUBSET Name] /\ \A m \in Member : IsFiniteSet(stored[m])

\* The inductive invariant.
FanoutInv ==
    /\ Held /\ Stores
    /\ place \in [fleet : SUBSET Member, emitted : BOOLEAN]
    /\ budget \in Config /\ "wopen" \notin budget.ops

\* The parts of the router the invariant is about, but for the joins.
Alike(S, T) == T.await = S.await /\ T.q = S.q /\ T.asked = S.asked /\ T.out = S.out

\* One slot of the table is written.
Slot(S, T, i, j) == T.joins[i] = j /\ \A k \in 1..Joins : k # i => T.joins[k] = S.joins[k]
WithJoin(S, i, j) == [S EXCEPT !.joins[i] = j]

\* The parts of a well-formed router.
LEMMA RouterParts ==
    ASSUME NEW S \in RouterSet
    PROVE  /\ S.joins \in [1..Joins -> JoinSet] /\ S.await \subseteq AwaitSet
           /\ S.q \in [Member -> Seq(LetterSet)] /\ S.stuck \subseteq Member /\ S.owed \subseteq Member
           /\ S.stalled \subseteq Member /\ S.quiet \subseteq Member /\ S.broken \subseteq Member
           /\ S.streams \in [1..Sids -> {FreeStream}] /\ S.fleet \subseteq Member /\ S.scrubAt \in Member
           /\ S.scrubBusy \in BOOLEAN /\ S.asked \in [Client -> AskSet] /\ S.mine \in [Client -> {0}]
           /\ S.sent \in [Client -> BOOLEAN] /\ S.out \in Seq(OutSet)
BY DEF RouterSet

\* The parts of a well-formed join.
LEMMA JoinParts ==
    ASSUME NEW j \in JoinSet
    PROVE  /\ j.kind \in {"free", "client", "repair", "admin_scan", "scan", "probe", "fetch"}
           /\ j.op \in PlainOp \cup {None} /\ j.name \in Name \cup {None}
           /\ j.client \in Client \cup {None} /\ j.gen \in {0, 1}
           /\ j.need \in Nat /\ j.ack \in Nat /\ j.fail \in Nat /\ j.targets \in Seq(Member)
           /\ j.attempt \in Nat \ {0} /\ j.missing \subseteq Member /\ j.present \subseteq Member
           /\ j.errno \in Errno \cup {None} /\ j.sid = 0 /\ j.repair \in Seq(Member)
BY DEF JoinSet

\* The image of a finite set is finite.
LEMMA ImageFinite ==
    ASSUME NEW S, IsFiniteSet(S), NEW f, DOMAIN f = S
    PROVE  IsFiniteSet({f[x] : x \in S})
<1> DEFINE T == {f[x] : x \in S}
           g == [x \in S |-> f[x]]
<1>1. g \in Surjection(S, T)
  BY DEF Surjection
<1> HIDE DEF g, T
<1>2. IsFiniteSet(T)
  BY <1>1, FS_Surjection
<1>3. QED
  BY <1>2 DEF T

\* A join that is good stays so while its client's request is the same, its
\* letters are no more, and it waits for no more.
LEMMA JoinLess ==
    ASSUME NEW S, NEW T, NEW H, NEW i, NEW j, Waits(T, i) \subseteq Waits(S, i),
           \A a \in Waits(T, i) : \A k \in DOMAIN T.q[a.to] :
               \E l \in DOMAIN S.q[a.to] : T.q[a.to][k] = S.q[a.to][l],
           j.kind \in Asking => T.asked[j.client] = S.asked[j.client],
           JoinGood(S, H, i, j)
    PROVE  JoinGood(T, H, i, j)
<1>1. LettersGood(S, i, j) => LettersGood(T, i, j)
  BY DEF LettersGood
<1>2. j.kind \in Asking /\ AskerGood(S, j) => AskerGood(T, j)
  BY DEF AskerGood
<1>3. j.kind \in Asking /\ WalkGood(S, H, i, j) => WalkGood(T, H, i, j)
  BY DEF WalkGood
<1>4. IsRead(j) => j.kind \in Asking
  BY DEF IsRead, Asking
<1>5. Waits(S, i) = {} => Waits(T, i) = {}
  OBVIOUS
<1>6. QED
  BY <1>1, <1>2, <1>3, <1>4, <1>5 DEF JoinGood

\* A join stays good while what it waits for and its client's request are the same.
LEMMA JoinSame ==
    ASSUME NEW S, NEW T, NEW H, NEW i, NEW j, Waits(T, i) = Waits(S, i), T.q = S.q,
           j.kind \in Asking => T.asked[j.client] = S.asked[j.client], JoinGood(S, H, i, j)
    PROVE  JoinGood(T, H, i, j)
<1>1. LettersGood(S, i, j) => LettersGood(T, i, j)
  BY DEF LettersGood
<1>2. j.kind \in Asking /\ AskerGood(S, j) => AskerGood(T, j)
  BY DEF AskerGood
<1>3. j.kind \in Asking /\ WalkGood(S, H, i, j) => WalkGood(T, H, i, j)
  BY DEF WalkGood
<1>4. IsRead(j) => j.kind \in Asking
  BY DEF IsRead, Asking
<1>5. QED
  BY <1>1, <1>2, <1>3, <1>4 DEF JoinGood

\* So does a write.
LEMMA PutSame ==
    ASSUME NEW S, NEW T, NEW H, NEW i, Waits(T, i) = Waits(S, i), T.joins[i] = S.joins[i],
           T.asked = S.asked, PutGood(S, H, i)
    PROVE  PutGood(T, H, i)
BY DEF PutGood, Covered

\* What is awaited decides what each join waits for.
LEMMA WaitsSame ==
    ASSUME NEW S, NEW T, NEW i, T.await = S.await
    PROVE  Waits(T, i) = Waits(S, i)
BY DEF Waits

\* What holds of every write holds of all but one.
LEMMA PutsBut ==
    ASSUME NEW S, NEW H, NEW i, Puts(S, H, 0)
    PROVE  Puts(S, H, i)
BY DEF Puts

\* Of joins that are not a client's write nothing is required.
LEMMA NotPut ==
    ASSUME NEW S, NEW H, NEW i, Puts(S, H, i), ~IsPut(S.joins[i])
    PROVE  Puts(S, H, 0)
BY DEF Puts, PutGood

\* Nobody else's join is for the client of this one.
Alone(S, i, j) == j.kind \in Asking => \A k \in 1..Joins : k # i /\ S.joins[k].kind \in Asking
                                                         => S.joins[k].client # j.client

\* A join is taken or updated.
LEMMA JoinChange ==
    ASSUME NEW S, NEW T, NEW H, NEW i \in 1..Joins, NEW j \in JoinSet,
           Base(S, H), Puts(S, H, i), T \in RouterSet, Slot(S, T, i, j),
           Alike(S, T), JoinGood(S, H, i, j),
           Alone(S, i, j)
    PROVE  Base(T, H) /\ Puts(T, H, i)
<1>1. S \in RouterSet /\ S.joins \in [1..Joins -> JoinSet]
  BY RouterParts DEF Base
<1>2. T.joins[i] = j /\ \A k \in 1..Joins : k # i => T.joins[k] = S.joins[k]
  BY <1>1 DEF Slot
<1>3. \A k \in 1..Joins : Waits(T, k) = Waits(S, k)
  BY WaitsSame DEF Alike
<1>4. AwaitGood(T)
  BY DEF Base, AwaitGood, Alike
<1>5. ASSUME NEW k \in 1..Joins PROVE JoinGood(T, H, k, T.joins[k])
  <2>1. CASE k = i
    <3>1. JoinGood(T, H, i, j)
      BY <1>3, JoinSame DEF Alike
    <3>2. QED
      BY <1>2, <2>1, <3>1
  <2>2. CASE k # i
    <3>1. JoinGood(S, H, k, S.joins[k])
      BY DEF Base
    <3>2. JoinGood(T, H, k, S.joins[k])
      BY <1>3, <3>1, JoinSame DEF Alike
    <3>3. QED
      BY <1>2, <2>2, <3>2
  <2>3. QED
    BY <2>1, <2>2
<1>6. OneJoin(T)
  <2>1. OneJoin(S)
    BY DEF Base
  <2> SUFFICES ASSUME NEW k \in 1..Joins, NEW l \in 1..Joins,
                      T.joins[k].kind \in Asking, T.joins[l].kind \in Asking,
                      T.joins[k].client = T.joins[l].client, k # l
               PROVE  FALSE
    BY DEF OneJoin
  <2>2. CASE k # i /\ l # i
    BY <1>2, <2>1, <2>2 DEF OneJoin
  <2>3. CASE k = i
    BY <1>2, <2>3 DEF Alone
  <2>4. CASE l = i
    BY <1>2, <2>4 DEF Alone
  <2>5. QED
    BY <2>2, <2>3, <2>4
<1>7. \A k \in DOMAIN T.out : OutGood(T.out[k], H)
  BY DEF Base, Alike
<1>8. Base(T, H)
  BY <1>4, <1>5, <1>6, <1>7 DEF Base
<1>9. Puts(T, H, i)
  <2> SUFFICES ASSUME NEW k \in 1..Joins, k # i PROVE PutGood(T, H, k)
    BY DEF Puts
  <2>1. PutGood(S, H, k)
    BY DEF Puts
  <2>2. QED
    BY <1>2, <1>3, <2>1, PutSame DEF Alike
<1>10. QED
  BY <1>8, <1>9

-----------------------------------------------------------------------------
(* The operators of the router: sending, freeing, answering                 *)

\* A request is sent for a join: what it asks is what the join is about, and
\* the next answer in its member's order is told from all that are awaited.
LEMMA DispatchGood ==
    ASSUME NEW S, NEW H, NEW m \in Member, NEW i \in 1..Joins, Base(S, H), Puts(S, H, i),
           S.joins[i].kind # "free",
           IsRead(S.joins[i]) => /\ Waits(S, i) = {}
                                 /\ S.joins[i].attempt \in DOMAIN S.joins[i].targets
                                 /\ S.joins[i].targets[S.joins[i].attempt] = m,
           NEW req, req = Req(S.joins[i].op, S.joins[i].name, 0), NEW T, T = Dispatch(S, m, i, req)
    PROVE  /\ Base(T, H) /\ Puts(T, H, i)
           /\ T.joins = S.joins /\ T.asked = S.asked /\ T.fleet = S.fleet /\ T.quiet = S.quiet
           /\ IsFiniteSet(Waits(S, i)) /\ Cardinality(Waits(T, i)) = Cardinality(Waits(S, i)) + 1
           /\ Waits(S, i) \subseteq Waits(T, i) /\ \E a \in Waits(T, i) : a.to = m
<1> DEFINE j == S.joins[i]
           cids == {a.cid : a \in {a \in S.await : a.to = m}}
           sent == {S.q[m][k].cid : k \in DOMAIN S.q[m]}
           cid == Fresh(cids \cup sent)
           new == [cid |-> cid, to |-> m, join |-> i, gen |-> S.joins[i].gen]
           letter == [cid |-> cid, req |-> req]
<1>1. /\ S \in RouterSet /\ S.joins \in [1..Joins -> JoinSet] /\ S.await \subseteq AwaitSet
      /\ S.q \in [Member -> Seq(LetterSet)] /\ S.owed \subseteq Member
      /\ S.asked \in [Client -> AskSet] /\ S.out \in Seq(OutSet)
  BY RouterParts DEF Base
<1>2. JoinGood(S, H, i, j) /\ j \in JoinSet
  BY <1>1 DEF Base
<1>3. /\ j.gen = 1 /\ j.op \in PlainOp /\ j.name \in Name \cup {None}
      /\ j.op # "scan" => j.name \in Name
  BY <1>2, JoinParts DEF JoinGood
<1>4. IsFiniteSet(S.await) /\ \A a, b \in S.await : a.to = b.to /\ a.cid = b.cid => a = b
  BY DEF Base, AwaitGood
<1>5. IsFiniteSet(cids \cup sent)
  <2>1. IsFiniteSet({a \in S.await : a.to = m})
    BY <1>4, FS_Subset
  <2>2. IsFiniteSet(cids)
    <3> DEFINE W == {a \in S.await : a.to = m}
               f == [a \in W |-> a.cid]
    <3>1. IsFiniteSet({f[a] : a \in W})
      <4> HIDE DEF W
      <4>1. DOMAIN f = W
        OBVIOUS
      <4> HIDE DEF f
      <4>2. QED
        BY <2>1, <4>1, ImageFinite DEF W
    <3>2. {f[a] : a \in W} = cids
      OBVIOUS
    <3>3. QED
      BY <3>1, <3>2
  <2>3. S.q[m] \in Seq(LetterSet) /\ DOMAIN S.q[m] = 1..Len(S.q[m]) /\ Len(S.q[m]) \in Nat
    BY <1>1, LenProperties
  <2>4. IsFiniteSet(DOMAIN S.q[m])
    BY <2>3, FS_Interval
  <2>5. IsFiniteSet(sent)
    <3> DEFINE D == DOMAIN S.q[m]
               f == [k \in D |-> S.q[m][k].cid]
    <3>1. IsFiniteSet({f[a] : a \in D})
      <4> HIDE DEF D
      <4>1. DOMAIN f = D
        OBVIOUS
      <4> HIDE DEF f
      <4>2. QED
        BY <2>4, <4>1, ImageFinite DEF D
    <3>2. {f[a] : a \in D} = sent
      OBVIOUS
    <3>3. QED
      BY <3>1, <3>2
  <2>6. QED
    BY <2>2, <2>5, FS_Union
<1>6. cid \in Nat /\ cid \notin cids \cup sent
  <2> HIDE DEF cids, sent
  <2>1. QED
    BY <1>5, FreshNew
<1>7. T = [S EXCEPT !.q[m] = Append(@, letter), !.await = @ \cup {new},
                    !.owed = IF m \in S.stuck THEN @ \cup {m} ELSE @]
  BY DEF Dispatch
<1> HIDE DEF cid
<1>8. letter \in LetterSet /\ new \in AwaitSet
  <2>1. req \in ReqSet
    BY <1>3 DEF ReqSet, Req
  <2>2. QED
    BY <1>3, <1>6, <2>1 DEF LetterSet, AwaitSet
<1>9. Append(S.q[m], letter) \in Seq(LetterSet)
  BY <1>1, <1>8, AppendProperties
<1> HIDE DEF new, letter
<1>10. T.q = [S.q EXCEPT ![m] = Append(S.q[m], letter)] /\ T.await = S.await \cup {new}
  BY <1>1, <1>7 DEF RouterSet
<1>11. T \in RouterSet
  <2> DEFINE q2 == [S.q EXCEPT ![m] = Append(S.q[m], letter)]
             w2 == S.await \cup {new}
             o2 == IF m \in S.stuck THEN S.owed \cup {m} ELSE S.owed
  <2>1. q2 \in [Member -> Seq(LetterSet)] /\ w2 \subseteq AwaitSet /\ o2 \subseteq Member
    BY <1>1, <1>8, <1>9
  <2>2. T = [S EXCEPT !.q = q2, !.await = w2, !.owed = o2]
    BY <1>1, <1>7 DEF RouterSet
  <2> HIDE DEF q2, w2, o2
  <2>3. QED
    BY <1>1, <2>1, <2>2 DEF RouterSet
<1>12. /\ T.joins = S.joins /\ T.asked = S.asked /\ T.fleet = S.fleet /\ T.quiet = S.quiet
       /\ T.out = S.out
  BY <1>1, <1>7 DEF RouterSet
<1>13. /\ \A k \in DOMAIN S.q[m] : S.q[m][k].cid # cid
       /\ \A a \in S.await : a.to = m => a.cid # cid
  BY <1>6
<1>14. new.cid = cid /\ new.to = m /\ new.join = i /\ new.gen = 1 /\ letter.cid = cid /\ letter.req = req
       /\ new \notin S.await
  BY <1>3, <1>13 DEF new, letter
<1>15. /\ \A n \in Member : n # m => T.q[n] = S.q[n]
       /\ T.q[m] = Append(S.q[m], letter)
       /\ \A k \in DOMAIN T.q[m] : \/ k \in DOMAIN S.q[m] /\ T.q[m][k] = S.q[m][k]
                                   \/ T.q[m][k] = letter
  <2>1. S.q[m] \in Seq(LetterSet) /\ T.q[m] = Append(S.q[m], letter)
    BY <1>1, <1>10
  <2>2. \A k \in DOMAIN T.q[m] : \/ k \in DOMAIN S.q[m] /\ T.q[m][k] = S.q[m][k]
                                 \/ T.q[m][k] = letter
    <3> DEFINE s == S.q[m]
    <3>1. s \in Seq(LetterSet) /\ T.q[m] = Append(s, letter)
      BY <2>1
    <3> HIDE DEF s
    <3>2. \A k \in DOMAIN Append(s, letter) : \/ k \in DOMAIN s /\ Append(s, letter)[k] = s[k]
                                              \/ Append(s, letter)[k] = letter
      BY <1>8, <3>1, AppendEach
    <3>3. QED
      BY <3>1, <3>2 DEF s
  <2>3. QED
    BY <1>1, <1>10, <2>1, <2>2
<1>16. AwaitGood(T)
  <2>1. IsFiniteSet(T.await)
    BY <1>4, <1>10, FS_AddElement
  <2>2. \A a, b \in T.await : a.to = b.to /\ a.cid = b.cid => a = b
    BY <1>4, <1>10, <1>13, <1>14
  <2>3. QED
    BY <2>1, <2>2 DEF AwaitGood
<1>17. Waits(T, i) = Waits(S, i) \cup {new} /\ \A k \in 1..Joins : k # i => Waits(T, k) = Waits(S, k)
  BY <1>10, <1>14 DEF Waits
\* The letters of a join that answers to nobody but itself.
<1>18. ASSUME NEW k \in 1..Joins, NEW a \in Waits(T, k), NEW l \in DOMAIN T.q[a.to],
              T.q[a.to][l].cid = a.cid, S.joins[k].kind # "free"
       PROVE  T.q[a.to][l].req.op = S.joins[k].op /\ T.q[a.to][l].req.name = S.joins[k].name
  <2>1. CASE a = new
    <3>1. k = i /\ a.to = m /\ a.cid = cid
      BY <1>14, <2>1 DEF Waits
    <3>2. T.q[m][l] = letter
      BY <1>13, <1>15, <1>18, <3>1
    <3>3. QED
      BY <1>14, <3>1, <3>2 DEF Req
  <2>2. CASE a # new
    <3>1. a \in Waits(S, k) /\ a \in S.await
      BY <1>10, <2>2 DEF Waits
    <3>2. JoinGood(S, H, k, S.joins[k]) /\ a.to \in Member
      BY <1>1, <3>1 DEF Base, AwaitSet
    <3>3. l \in DOMAIN S.q[a.to] /\ T.q[a.to][l] = S.q[a.to][l]
      <4>1. CASE a.to = m
        <5>1. a.cid # cid
          BY <1>13, <3>1, <4>1
        <5>2. T.q[m][l] # letter /\ l \in DOMAIN T.q[m]
          BY <1>14, <1>18, <4>1, <5>1
        <5>3. QED
          BY <1>15, <4>1, <5>2
      <4>2. CASE a.to # m
        BY <1>15, <3>2, <4>2
      <4>3. QED
        BY <4>1, <4>2
    <3>4. QED
      BY <1>18, <3>1, <3>2, <3>3 DEF JoinGood, LettersGood
  <2>3. QED
    BY <2>1, <2>2
<1>19. ASSUME NEW k \in 1..Joins PROVE JoinGood(T, H, k, T.joins[k])
  <2>1. JoinGood(S, H, k, S.joins[k])
    BY DEF Base
  <2>2. S.joins[k].kind # "free" => LettersGood(T, k, S.joins[k])
    BY <1>18 DEF LettersGood
  <2>3. AskerGood(S, S.joins[k]) => AskerGood(T, S.joins[k])
    BY <1>12 DEF AskerGood
  <2>4. S.joins[k].kind = "free" => Waits(T, k) = Waits(S, k)
    BY <1>17
  <2>5. IsRead(S.joins[k]) /\ WalkGood(S, H, k, S.joins[k]) => WalkGood(T, H, k, S.joins[k])
    <3>1. CASE k = i
      <4>1. SUFFICES ASSUME IsRead(S.joins[i]), WalkGood(S, H, i, S.joins[i])
                     PROVE  WalkGood(T, H, i, S.joins[i])
        BY <3>1
      <4>2. Waits(T, i) = {new} /\ new.to = m
        BY <1>14, <1>17, <4>1
      <4>3. QED
        BY <1>12, <4>1, <4>2 DEF WalkGood
    <3>2. CASE k # i
      BY <1>12, <1>17, <3>2 DEF WalkGood
    <3>3. QED
      BY <3>1, <3>2
  <2>6. JoinGood(T, H, k, S.joins[k])
    BY <2>1, <2>2, <2>3, <2>4, <2>5 DEF JoinGood
  <2>7. QED
    BY <1>12, <2>6
<1>20. OneJoin(T)
  BY <1>12 DEF Base, OneJoin
<1>21. Base(T, H)
  BY <1>11, <1>12, <1>16, <1>19, <1>20 DEF Base
<1>22. Puts(T, H, i)
  <2> SUFFICES ASSUME NEW k \in 1..Joins, k # i PROVE PutGood(T, H, k)
    BY DEF Puts
  <2>1. PutGood(S, H, k)
    BY DEF Puts
  <2>2. QED
    BY <1>12, <1>17, <2>1, PutSame
<1>23. IsFiniteSet(Waits(S, i))
  BY <1>4, FS_Subset DEF Waits
<1>24. Cardinality(Waits(T, i)) = Cardinality(Waits(S, i)) + 1
  <2>1. new \notin Waits(S, i)
    BY <1>14 DEF Waits
  <2>2. QED
    BY <1>17, <1>23, <2>1, FS_AddElement
<1>25. QED
  BY <1>12, <1>14, <1>17, <1>21, <1>22, <1>23, <1>24

\* A join is given back: nobody is awaited for it, and the others are as they were.
LEMMA FreeGood ==
    ASSUME NEW S, NEW H, NEW i \in 1..Joins, Base(S, H), Puts(S, H, i),
           NEW T, T = Free(S, i)
    PROVE  /\ Base(T, H) /\ Puts(T, H, 0)
           /\ Slot(S, T, i, FreeJoin) /\ T.asked = S.asked /\ T.fleet = S.fleet
           /\ T.quiet = S.quiet
<1> DEFINE Over(a) == IF a.join = i THEN [a EXCEPT !.gen = 0] ELSE a
<1>1. /\ S \in RouterSet /\ S.joins \in [1..Joins -> JoinSet] /\ S.await \subseteq AwaitSet
  BY RouterParts DEF Base
<1>2. T = [S EXCEPT !.joins[i] = FreeJoin, !.await = {Over(a) : a \in S.await}]
  BY <1>1 DEF Free, RouterSet
<1>3. FreeJoin \in JoinSet
  BY EmptySeq DEF FreeJoin, JoinSet
<1>4. \A a \in S.await : /\ Over(a) \in AwaitSet /\ Over(a).to = a.to /\ Over(a).cid = a.cid
                          /\ Over(a).join = a.join
                          /\ (a.join # i => Over(a) = a) /\ (a.join = i => Over(a).gen = 0)
  BY <1>1 DEF AwaitSet
<1>5. T.joins = [S.joins EXCEPT ![i] = FreeJoin] /\ T.await = {Over(a) : a \in S.await}
  BY <1>1, <1>2 DEF RouterSet
<1>6. T.asked = S.asked /\ T.fleet = S.fleet /\ T.quiet = S.quiet /\ T.q = S.q /\ T.out = S.out
  BY <1>1, <1>2 DEF RouterSet
<1>7. T \in RouterSet
  <2> DEFINE j2 == [S.joins EXCEPT ![i] = FreeJoin]
             w2 == {Over(a) : a \in S.await}
  <2>1. j2 \in [1..Joins -> JoinSet] /\ w2 \subseteq AwaitSet
    <3>1. w2 \subseteq AwaitSet
      BY <1>4
    <3>2. j2 \in [1..Joins -> JoinSet]
      BY <1>1, <1>3
    <3>3. QED
      BY <3>1, <3>2
  <2>2. T = [S EXCEPT !.joins = j2, !.await = w2]
    BY <1>1, <1>2 DEF RouterSet
  <2> HIDE DEF j2, w2
  <2>3. QED
    BY <1>1, <2>1, <2>2 DEF RouterSet
<1>8. T.joins[i] = FreeJoin /\ \A k \in 1..Joins : k # i => T.joins[k] = S.joins[k]
  BY <1>1, <1>5
<1>9. Waits(T, i) = {} /\ \A k \in 1..Joins : k # i => Waits(T, k) = Waits(S, k)
  <2>1. ASSUME NEW b \in Waits(T, i) PROVE FALSE
    <3>1. PICK a \in S.await : b = Over(a)
      BY <1>5 DEF Waits
    <3>2. b.join = i /\ b.gen = 1
      BY DEF Waits
    <3>3. QED
      BY <1>4, <3>1, <3>2
  <2>2. ASSUME NEW k \in 1..Joins, k # i PROVE Waits(T, k) = Waits(S, k)
    <3> HIDE DEF Over
    <3>1. QED
      BY <1>4, <1>5, <2>2 DEF Waits
  <2>3. QED
    BY <2>1, <2>2
<1>10. AwaitGood(T)
  <2>1. IsFiniteSet(S.await) /\ \A a, b \in S.await : a.to = b.to /\ a.cid = b.cid => a = b
    BY DEF Base, AwaitGood
  <2> HIDE DEF Over
  <2>2. IsFiniteSet(T.await)
    <3> DEFINE f == [a \in S.await |-> Over(a)]
    <3>1. DOMAIN f = S.await /\ {f[a] : a \in S.await} = T.await
      BY <1>5
    <3> HIDE DEF f
    <3>2. QED
      BY <2>1, <3>1, ImageFinite
  <2>3. ASSUME NEW a \in T.await, NEW b \in T.await, a.to = b.to, a.cid = b.cid PROVE a = b
    BY <1>4, <1>5, <2>1, <2>3
  <2>4. QED
    BY <2>2, <2>3 DEF AwaitGood
<1>11. ASSUME NEW k \in 1..Joins PROVE JoinGood(T, H, k, T.joins[k])
  <2>1. CASE k = i
    <3>1. JoinGood(T, H, i, FreeJoin)
      BY <1>9 DEF JoinGood, FreeJoin, Asking, IsRead, None
    <3>2. QED
      BY <1>8, <2>1, <3>1
  <2>2. CASE k # i
    <3>1. JoinGood(S, H, k, S.joins[k])
      BY DEF Base
    <3>2. QED
      BY <1>6, <1>8, <1>9, <2>2, <3>1, JoinSame
  <2>3. QED
    BY <2>1, <2>2
<1>12. OneJoin(T)
  <2>1. OneJoin(S) /\ FreeJoin.kind \notin Asking
    BY DEF Base, FreeJoin, Asking
  <2>2. QED
    BY <1>8, <2>1 DEF OneJoin
<1>13. Base(T, H)
  BY <1>6, <1>7, <1>10, <1>11, <1>12 DEF Base
<1>14. Puts(T, H, 0)
  <2> SUFFICES ASSUME NEW k \in 1..Joins PROVE PutGood(T, H, k)
    BY DEF Puts
  <2>1. CASE k = i
    BY <1>8, <2>1 DEF PutGood, IsPut, FreeJoin
  <2>2. CASE k # i
    <3>1. PutGood(S, H, k)
      BY <2>2 DEF Puts
    <3>2. QED
      BY <1>6, <1>8, <1>9, <2>2, <3>1, PutSame
  <2>3. QED
    BY <2>1, <2>2
<1>15. QED
  BY <1>6, <1>8, <1>13, <1>14 DEF Slot

\* A client is answered: it has no join any more.
LEMMA EmitGood ==
    ASSUME NEW S, NEW H, NEW x, NEW c \in Client, NEW r \in Errno \cup {Ok}, Base(S, H), Puts(S, H, x),
           \A k \in 1..Joins : S.joins[k].kind \in Asking => S.joins[k].client # c,
           OutGood([client |-> c, req |-> S.asked[c], ans |-> r], H),
           NEW T, T = Emit(S, c, r)
    PROVE  Base(T, H) /\ Puts(T, H, x) /\ T.joins = S.joins
<1> DEFINE e == [client |-> c, req |-> S.asked[c], ans |-> r]
<1>1. /\ S \in RouterSet /\ S.asked \in [Client -> AskSet] /\ S.out \in Seq(OutSet)
  BY RouterParts DEF Base
<1>2. e \in OutSet /\ Idle \in AskSet
  BY <1>1 DEF OutSet, Idle, AskSet
<1>3. T = [S EXCEPT !.out = Append(@, e), !.asked[c] = Idle]
  BY DEF Emit
<1>4. Append(S.out, e) \in Seq(OutSet)
  BY <1>1, <1>2, AppendProperties
<1>5. /\ T.asked = [S.asked EXCEPT ![c] = Idle] /\ T.out = Append(S.out, e)
      /\ T.joins = S.joins /\ T.await = S.await /\ T.q = S.q
  BY <1>1, <1>3 DEF RouterSet
<1>6. T \in RouterSet
  <2> DEFINE o2 == Append(S.out, e)
             a2 == [S.asked EXCEPT ![c] = Idle]
  <2>1. o2 \in Seq(OutSet) /\ a2 \in [Client -> AskSet]
    BY <1>1, <1>2, <1>4
  <2>2. T = [S EXCEPT !.out = o2, !.asked = a2]
    BY <1>1, <1>3 DEF RouterSet
  <2> HIDE DEF o2, a2
  <2>3. QED
    BY <1>1, <2>1, <2>2 DEF RouterSet
<1>7. \A k \in DOMAIN T.out : OutGood(T.out[k], H)
  <2>1. \A k \in DOMAIN S.out : OutGood(S.out[k], H)
    BY DEF Base
  <2>2. OutGood(e, H)
    OBVIOUS
  <2> HIDE DEF e
  <2>3. \A k \in DOMAIN T.out : (k \in DOMAIN S.out /\ T.out[k] = S.out[k]) \/ T.out[k] = e
    BY <1>1, <1>2, <1>5, AppendEach
  <2>4. QED
    BY <2>1, <2>2, <2>3
<1>8. \A k \in 1..Joins : Waits(T, k) = Waits(S, k)
  BY <1>5, WaitsSame
<1>9. ASSUME NEW d \in Client, d # c PROVE T.asked[d] = S.asked[d]
  BY <1>1, <1>5, <1>9
<1>10. ASSUME NEW k \in 1..Joins PROVE JoinGood(T, H, k, T.joins[k])
  <2>1. JoinGood(S, H, k, S.joins[k])
    BY DEF Base
  <2>2. S.joins[k].kind \in Asking => T.asked[S.joins[k].client] = S.asked[S.joins[k].client]
    BY <1>9, <2>1 DEF JoinGood, AskerGood
  <2>3. JoinGood(T, H, k, S.joins[k])
    BY <1>5, <1>8, <2>1, <2>2, JoinSame
  <2>4. QED
    BY <1>5, <2>3
<1>11. AwaitGood(T) /\ OneJoin(T)
  BY <1>5 DEF Base, AwaitGood, OneJoin
<1>12. Base(T, H)
  BY <1>6, <1>7, <1>10, <1>11 DEF Base
<1>13. Puts(T, H, x)
  <2> SUFFICES ASSUME NEW k \in 1..Joins, k # x PROVE PutGood(T, H, k)
    BY DEF Puts
  <2>1. PutGood(S, H, k) /\ JoinGood(S, H, k, S.joins[k])
    BY DEF Puts, Base
  <2>2. IsPut(S.joins[k]) => T.asked[S.joins[k].client] = S.asked[S.joins[k].client]
    BY <1>9, <2>1 DEF JoinGood, AskerGood, IsPut, Asking
  <2>3. QED
    BY <1>5, <1>8, <2>1, <2>2 DEF PutGood, Covered
<1>14. QED
  BY <1>5, <1>12, <1>13

\* A slot that is given out is free.
LEMMA NextFree ==
    ASSUME NEW S, FreeJoins(S) # {}
    PROVE  NextJoin(S) \in 1..Joins /\ S.joins[NextJoin(S)].kind = "free"
<1>1. FreeJoins(S) \subseteq Nat
  BY SizesAssumption DEF FreeJoins
<1>2. NextJoin(S) \in FreeJoins(S)
  BY <1>1, LeastNat DEF NextJoin
<1>3. QED
  BY <1>2 DEF FreeJoins

\* A write to one slot of the table.
LEMMA JoinWrite ==
    ASSUME NEW S \in RouterSet, NEW i \in 1..Joins, NEW j \in JoinSet, NEW T,
           T = WithJoin(S, i, j)
    PROVE  /\ T \in RouterSet /\ Slot(S, T, i, j) /\ Alike(S, T)
           /\ T.fleet = S.fleet /\ T.quiet = S.quiet /\ T.scrubAt = S.scrubAt
<1> DEFINE j2 == [S.joins EXCEPT ![i] = j]
<1>1. j2 \in [1..Joins -> JoinSet]
  BY RouterParts
<1>2. T = [S EXCEPT !.joins = j2]
  BY DEF RouterSet, WithJoin
<1> HIDE DEF j2
<1>3. T \in RouterSet
  BY <1>1, <1>2 DEF RouterSet
<1>4. /\ T.joins = j2 /\ Alike(S, T)
      /\ T.fleet = S.fleet /\ T.quiet = S.quiet /\ T.scrubAt = S.scrubAt
  BY <1>2 DEF RouterSet, Alike
<1>5. Slot(S, T, i, j)
  BY <1>4, RouterParts DEF j2, Slot
<1>6. QED
  BY <1>3, <1>4, <1>5

\* A join as its slot holds it.
Live(j) == [j EXCEPT !.gen = 1]

\* A join taken is the one asked for, but for its incarnation.
LEMMA LiveParts ==
    ASSUME NEW j \in JoinSet
    PROVE  /\ Live(j) \in JoinSet /\ Live(j).kind = j.kind /\ Live(j).op = j.op /\ Live(j).name = j.name
           /\ Live(j).client = j.client /\ Live(j).targets = j.targets /\ Live(j).errno = j.errno
           /\ Live(j).need = j.need /\ Live(j).ack = j.ack /\ Live(j).fail = j.fail
           /\ Live(j).attempt = j.attempt
BY DEF Live, JoinSet

\* A slot is taken.
LEMMA AllocGood ==
    ASSUME NEW S, NEW H, NEW i \in 1..Joins, NEW j \in JoinSet, Base(S, H), Puts(S, H, i),
           S.joins[i].kind = "free", j.kind # "free", j.op \in PlainOp, j.op # "scan" => j.name \in Name,
           j.kind \in Asking => /\ AskerGood(S, j)
                                /\ \A k \in 1..Joins : S.joins[k].kind \in Asking
                                                       => S.joins[k].client # j.client,
           j.op = "scan" => j.kind \in {"scan", "admin_scan"}, j.kind = "admin_scan" => j.op = "scan",
           IsRead(j) => (S.asked[j.client].sure =>
                            \A k \in DOMAIN j.targets : <<j.name, j.targets[k]>> \in H),
           NEW T, T = Alloc(S, i, j)
    PROVE  /\ Base(T, H) /\ Puts(T, H, i) /\ T.joins[i] = Live(j)
           /\ T.joins[i] \in JoinSet /\ Waits(T, i) = {}
           /\ T.asked = S.asked /\ T.fleet = S.fleet /\ T.quiet = S.quiet /\ T.scrubAt = S.scrubAt
<1> DEFINE j1 == [j EXCEPT !.gen = 1]
<1>1. S \in RouterSet /\ JoinGood(S, H, i, S.joins[i])
  BY DEF Base
<1>2. /\ j1 \in JoinSet /\ j1.kind = j.kind /\ j1.op = j.op /\ j1.name = j.name /\ j1.gen = 1
      /\ j1.client = j.client /\ j1.targets = j.targets /\ j1.errno = j.errno
  BY DEF JoinSet
<1>3. Waits(S, i) = {}
  BY <1>1 DEF JoinGood
<1>4. T = WithJoin(S, i, j1)
  BY DEF Alloc, WithJoin
<1> HIDE DEF j1
<1>5. T \in RouterSet /\ Slot(S, T, i, j1) /\ Alike(S, T)
      /\ T.fleet = S.fleet /\ T.quiet = S.quiet /\ T.scrubAt = S.scrubAt
  BY <1>1, <1>2, <1>4, JoinWrite
<1>6. JoinGood(S, H, i, j1)
  <2>1. LettersGood(S, i, j1)
    BY <1>3 DEF LettersGood
  <2>2. j.kind \in Asking => AskerGood(S, j1)
    BY <1>2 DEF AskerGood
  <2>3. IsRead(j1) => WalkGood(S, H, i, j1)
    BY <1>2, <1>3 DEF WalkGood, IsRead
  <2>4. QED
    BY <1>2, <2>1, <2>2, <2>3 DEF JoinGood
<1>7. Base(T, H) /\ Puts(T, H, i)
  <2>1. Alone(S, i, j1)
    BY <1>2 DEF Alone
  <2>2. QED
    BY <1>2, <1>5, <1>6, <2>1, JoinChange
<1>8. T.asked = S.asked /\ T.joins[i] = j1 /\ Waits(T, i) = Waits(S, i)
  BY <1>5, WaitsSame DEF Alike, Slot
<1>9. QED
  BY <1>2, <1>3, <1>5, <1>7, <1>8 DEF j1, Live

\* Counters, and the sets of members, may change in a slot at any time.
Recount(S, i, j) ==
    /\ j \in JoinSet /\ S.joins[i].kind # "free"
    /\ j.kind = S.joins[i].kind /\ j.op = S.joins[i].op /\ j.name = S.joins[i].name
    /\ j.client = S.joins[i].client /\ j.gen = S.joins[i].gen /\ j.targets = S.joins[i].targets
    /\ IsRead(j) => j.attempt = S.joins[i].attempt \/ Waits(S, i) = {}
    /\ j.kind \in Asking => (j.errno = "not_found" => ~S.asked[j.client].sure)

\* A join whose counters change is as good as it was.
LEMMA JoinCount ==
    ASSUME NEW S, NEW H, NEW i \in 1..Joins, NEW j, Base(S, H), Puts(S, H, i),
           Recount(S, i, j), NEW T, T = WithJoin(S, i, j)
    PROVE  /\ Base(T, H) /\ Puts(T, H, i) /\ T.joins[i] = j
           /\ Waits(T, i) = Waits(S, i)
           /\ T.asked = S.asked /\ T.fleet = S.fleet /\ T.quiet = S.quiet
<1>1. S \in RouterSet /\ JoinGood(S, H, i, S.joins[i]) /\ OneJoin(S) /\ j \in JoinSet
  BY DEF Base, Recount
<1>2. T \in RouterSet /\ Slot(S, T, i, j) /\ Alike(S, T)
      /\ T.fleet = S.fleet /\ T.quiet = S.quiet
  BY <1>1, JoinWrite
<1>3. JoinGood(S, H, i, j)
  <2>1. LettersGood(S, i, S.joins[i]) => LettersGood(S, i, j)
    BY DEF LettersGood, Recount
  <2>2. j.kind \in Asking /\ AskerGood(S, S.joins[i]) => AskerGood(S, j)
    BY DEF AskerGood, Recount
  <2>3. IsRead(j) /\ WalkGood(S, H, i, S.joins[i]) => WalkGood(S, H, i, j)
    BY DEF WalkGood, Recount
  <2>4. IsRead(j) <=> IsRead(S.joins[i])
    BY DEF IsRead, Recount
  <2>5. QED
    BY <1>1, <2>1, <2>2, <2>3, <2>4 DEF JoinGood, Recount
<1>4. Alone(S, i, j)
  BY <1>1 DEF OneJoin, Alone, Recount
<1>5. Base(T, H) /\ Puts(T, H, i)
  BY <1>1, <1>2, <1>3, <1>4, JoinChange
<1>6. QED
  BY <1>2, <1>5, WaitsSame DEF Alike, Slot

\* A request ends with its answer, and its join is given back.
LEMMA NakGood ==
    ASSUME NEW S, NEW H, NEW i \in 1..Joins, Base(S, H), Puts(S, H, i),
           S.joins[i].kind \in Asking, NEW r \in Errno \cup {Ok},
           r = Ok /\ IsPut(S.joins[i]) =>
               {S.joins[i].name} \X (S.asked[S.joins[i].client].on \ S.asked[S.joins[i].client].lost)
                   \subseteq H,
           ~(r = "not_found" /\ S.asked[S.joins[i].client].sure),
           NEW T, T = Nak(S, i, r)
    PROVE  Base(T, H) /\ Puts(T, H, 0)
<1> DEFINE c == S.joins[i].client
           U == Free(S, i)
<1>0. U = Free(S, i) /\ T = Emit(U, c, r)
  BY DEF Nak
<1> HIDE DEF U
<1>1. /\ Base(U, H) /\ Puts(U, H, 0) /\ U.asked = S.asked
      /\ Slot(S, U, i, FreeJoin)
  BY <1>0, FreeGood
<1>2. T = Emit(U, c, r)
  BY <1>0
<1>3. JoinGood(S, H, i, S.joins[i]) /\ OneJoin(S)
  BY DEF Base
<1>4. AskerGood(S, S.joins[i]) /\ S.joins[i].op \in PlainOp
  BY <1>3 DEF JoinGood, Asking
<1>5. c \in Client /\ S.asked[c].op = S.joins[i].op /\ S.asked[c].name = S.joins[i].name
  BY <1>4 DEF AskerGood
<1>6. \A k \in 1..Joins : U.joins[k].kind \in Asking => U.joins[k].client # c
  BY <1>1, <1>3 DEF OneJoin, FreeJoin, Asking, Slot
<1>7. S.joins[i].op \in PutOp => IsPut(S.joins[i])
  BY <1>3 DEF JoinGood, IsPut, PutOp, Asking
<1>8. OutGood([client |-> c, req |-> U.asked[c], ans |-> r], H)
  BY <1>1, <1>4, <1>5, <1>7 DEF OutGood, PlainOp, PutOp, ReadOp, None
<1> HIDE DEF c
<1>9. QED
  BY <1>1, <1>2, <1>5, <1>6, <1>8, EmitGood

\* A read, or a fetch of the scrub's, goes to the next member of its walk or
\* ends, and what is surely there is not denied.
LEMMA AdvanceGood ==
    ASSUME NEW S, NEW H, NEW i \in 1..Joins, Base(S, H), Puts(S, H, i),
           S.joins[i].kind = "fetch" \/ IsRead(S.joins[i]), S.joins[i].kind # "free",
           IsRead(S.joins[i]) => Waits(S, i) = {}, NEW T, T = AdvanceRead(S, i)
    PROVE  Base(T, H) /\ Puts(T, H, 0)
<1> DEFINE j == S.joins[i]
           left == {a \in j.attempt..Len(j.targets) : CanDispatch(S, j.targets[a])}
           next == CHOOSE a \in left : \A b \in left : a <= b
           errno == IF j.attempt > Len(j.targets) THEN OrIo(j.errno) ELSE "io"
           j2 == [j EXCEPT !.attempt = next, !.errno = IF next = j.attempt THEN @ ELSE "io"]
           U == WithJoin(S, i, j2)
           req == Req(j.op, j.name, 0)
<1>1. S \in RouterSet /\ S.joins \in [1..Joins -> JoinSet] /\ JoinGood(S, H, i, j) /\ j \in JoinSet
  BY RouterParts DEF Base
<1>2. /\ j.attempt \in Nat \ {0} /\ j.targets \in Seq(Member) /\ Len(j.targets) \in Nat
      /\ DOMAIN j.targets = 1..Len(j.targets) /\ j.errno \in Errno \cup {None}
  BY <1>1, JoinParts, LenProperties
<1>3. ~IsPut(j)
  BY DEF IsPut, IsRead, PutOp, ReadOp
<1>4. CASE left # {}
  <2>1. left \subseteq Nat
    BY <1>2
  <2>2. next \in left
    <3> HIDE DEF left
    <3>1. QED
      BY <1>4, <2>1, LeastNat
  <2>3. next \in DOMAIN j.targets /\ next \in Nat \ {0}
    <3> HIDE DEF next
    <3>1. next \in j.attempt..Len(j.targets)
      BY <2>2
    <3>2. QED
      BY <1>2, <3>1
  <2>4. j.targets[next] \in Member
    BY <1>2, <2>3, ElementOfSeq
  <2> HIDE DEF next, left
  <2>5. T = Dispatch(U, j.targets[next], i, req)
    <3>1. U = [S EXCEPT !.joins[i].attempt = next,
                        !.joins[i].errno = IF next = j.attempt THEN @ ELSE "io"]
      BY <1>1 DEF RouterSet, JoinSet, WithJoin
    <3> HIDE DEF U, j2
    <3>2. QED
      BY <1>4, <3>1 DEF AdvanceRead, left, next
  <2>6. /\ j2 \in JoinSet /\ j2.kind = j.kind /\ j2.op = j.op /\ j2.name = j.name /\ j2.client = j.client
        /\ j2.gen = j.gen /\ j2.targets = j.targets /\ j2.attempt = next
        /\ j2.errno = IF next = j.attempt THEN j.errno ELSE "io"
    BY <1>1, <2>3 DEF JoinSet, Errno
  <2>7. j2.kind \in Asking => (j2.errno = "not_found" => ~S.asked[j2.client].sure)
    BY <1>1, <2>6 DEF JoinGood, AskerGood
  <2>8. U = WithJoin(S, i, j2)
    OBVIOUS
  <2> HIDE DEF U, j2
  <2>9. /\ Base(U, H) /\ Puts(U, H, i) /\ U.joins[i] = j2 /\ Waits(U, i) = Waits(S, i)
    <3>1. Recount(S, i, j2)
      BY <2>6, <2>7 DEF Recount, IsRead
    <3>2. QED
      BY <2>8, <3>1, JoinCount
  <2>10. req = Req(U.joins[i].op, U.joins[i].name, 0) /\ U.joins[i].kind # "free"
    BY <2>6, <2>9
  <2>11. IsRead(U.joins[i]) => /\ Waits(U, i) = {}
                               /\ U.joins[i].attempt \in DOMAIN U.joins[i].targets
                               /\ U.joins[i].targets[U.joins[i].attempt] = j.targets[next]
    BY <2>3, <2>6, <2>9 DEF IsRead
  <2> HIDE DEF req
  <2>12. Base(T, H) /\ Puts(T, H, i) /\ T.joins = U.joins
    <3> DEFINE m == j.targets[next]
    <3> HIDE DEF m, j
    <3>1. QED
      BY <2>4, <2>5, <2>9, <2>10, <2>11, DispatchGood DEF m
  <2>13. ~IsPut(T.joins[i])
    BY <1>3, <2>6, <2>9, <2>12 DEF IsPut
  <2>14. QED
    BY <2>12, <2>13, NotPut
<1>5. CASE left = {} /\ j.kind = "fetch"
  <2>1. T = Free(S, i)
    BY <1>5 DEF AdvanceRead
  <2>2. QED
    BY <2>1, FreeGood
<1>6. CASE left = {} /\ j.kind # "fetch"
  <2>1. T = Nak(S, i, errno)
    BY <1>6 DEF AdvanceRead
  <2>2. IsRead(j) /\ j.kind \in Asking
    BY <1>6 DEF IsRead, Asking
  <2>3. errno \in Errno \cup {Ok} /\ errno # Ok /\ (errno = "not_found" => j.errno = "not_found")
    BY <1>2 DEF OrIo, Errno, None, Ok
  <2>4. ~(errno = "not_found" /\ S.asked[j.client].sure)
    BY <1>1, <2>2, <2>3 DEF JoinGood, AskerGood
  <2> HIDE DEF errno
  <2>5. QED
    BY <2>1, <2>2, <2>3, <2>4, NakGood
<1>7. QED
  BY <1>4, <1>5, <1>6

-----------------------------------------------------------------------------
(* Fan-out                                                                  *)

\* One request of a fan-out is sent or counted as failed.
FanStep(T, i, targets, reqs, k) == IF CanDispatch(T, targets[k])
                                   THEN Dispatch(T, targets[k], i, reqs[k])
                                   ELSE [T EXCEPT !.joins[i].fail = @ + 1]

\* What a fan-out keeps, of the state it started from.
Fanning(S, T, H, i) ==
    /\ Base(T, H) /\ Puts(T, H, i) /\ T.asked = S.asked /\ T.joins[i].kind = S.joins[i].kind
    /\ T.joins[i].op = S.joins[i].op /\ T.joins[i].name = S.joins[i].name
    /\ T.joins[i].client = S.joins[i].client /\ T.joins[i].need = S.joins[i].need
    /\ T.joins[i].ack = S.joins[i].ack

\* One request of a fan-out keeps what the fan-out keeps.
LEMMA FanStepGood ==
    ASSUME NEW S, NEW T, NEW H, NEW i \in 1..Joins, Fanning(S, T, H, i), S.joins[i].kind # "free",
           ~IsRead(S.joins[i]), NEW targets \in Seq(Member), NEW reqs, NEW k \in 1..Len(targets),
           reqs[k] = Req(S.joins[i].op, S.joins[i].name, 0),
           NEW U, U = FanStep(T, i, targets, reqs, k)
    PROVE  /\ Fanning(S, U, H, i) /\ Waits(T, i) \subseteq Waits(U, i)
           /\ Cardinality(Waits(T, i)) \in Nat
           /\ Cardinality(Waits(U, i)) <= Cardinality(Waits(T, i)) + 1
           /\ U.joins[i].fail = 0 => T.joins[i].fail = 0 /\ \E a \in Waits(U, i) : a.to = targets[k]
<1> DEFINE m == targets[k]
           j == T.joins[i]
           j2 == [j EXCEPT !.fail = @ + 1]
<1>1. T \in RouterSet /\ T.joins \in [1..Joins -> JoinSet] /\ JoinGood(T, H, i, j) /\ j \in JoinSet
      /\ IsFiniteSet(T.await)
  BY RouterParts DEF Base, Fanning, AwaitGood
<1>2. m \in Member
  BY ElementOfSeq
<1>3. IsFiniteSet(Waits(T, i)) /\ Cardinality(Waits(T, i)) \in Nat
  <2>1. Waits(T, i) \subseteq T.await
    BY DEF Waits
  <2>2. QED
    BY <1>1, <2>1, FS_Subset, FS_CardinalityType
<1>4. Base(T, H) /\ Puts(T, H, i) /\ j.kind # "free" /\ ~IsRead(j)
  BY DEF Fanning, IsRead
<1>5. CASE CanDispatch(T, m)
  <2>1. U = Dispatch(T, m, i, reqs[k]) /\ reqs[k] = Req(T.joins[i].op, T.joins[i].name, 0)
    BY <1>5 DEF FanStep, Fanning
  <2> HIDE DEF m
  <2>2. /\ Base(U, H) /\ Puts(U, H, i) /\ U.joins = T.joins /\ U.asked = T.asked
        /\ Cardinality(Waits(U, i)) = Cardinality(Waits(T, i)) + 1
        /\ Waits(T, i) \subseteq Waits(U, i) /\ \E a \in Waits(U, i) : a.to = m
    <3> DEFINE req == reqs[k]
    <3> HIDE DEF req
    <3>1. U = Dispatch(T, m, i, req) /\ req = Req(T.joins[i].op, T.joins[i].name, 0)
      BY <2>1 DEF req
    <3>2. QED
      BY <1>2, <1>4, <3>1, DispatchGood
  <2>3. Fanning(S, U, H, i)
    BY <2>2 DEF Fanning
  <2>4. QED
    BY <1>3, <2>2, <2>3 DEF m
<1>6. CASE ~CanDispatch(T, m)
  <2>1. U = WithJoin(T, i, j2)
    BY <1>1, <1>6 DEF FanStep, WithJoin, RouterSet, JoinSet
  <2>2. /\ j2 \in JoinSet /\ j2.kind = j.kind /\ j2.op = j.op /\ j2.name = j.name /\ j2.client = j.client
        /\ j2.gen = j.gen /\ j2.targets = j.targets /\ j2.attempt = j.attempt
        /\ j2.errno = j.errno /\ j2.fail # 0 /\ j2.need = j.need /\ j2.ack = j.ack
    <3> HIDE DEF j
    <3> DEFINE n == j.fail + 1
    <3>1. n \in Nat /\ n # 0 /\ j2 = [j EXCEPT !.fail = n]
      BY <1>1, JoinParts
    <3> HIDE DEF n, j2
    <3>2. QED
      BY <1>1, <3>1 DEF JoinSet
  <2>3. j2.kind \in Asking => (j2.errno = "not_found" => ~T.asked[j2.client].sure)
    BY <1>1, <2>2 DEF JoinGood, AskerGood
  <2> HIDE DEF j2
  <2>4. /\ Base(U, H) /\ Puts(U, H, i) /\ U.joins[i] = j2 /\ Waits(U, i) = Waits(T, i)
        /\ U.asked = T.asked
    <3>1. Recount(T, i, j2)
      BY <1>4, <2>2, <2>3 DEF Recount
    <3>2. QED
      BY <1>4, <2>1, <3>1, JoinCount
  <2>5. Fanning(S, U, H, i)
    BY <2>2, <2>4 DEF Fanning
  <2>6. QED
    BY <1>3, <2>2, <2>4, <2>5
<1>7. QED
  BY <1>5, <1>6

\* A fan-out: each member of the set is awaited, or a failure is counted, and
\* no more are awaited than there are members.
LEMMA FanOutGood ==
    ASSUME NEW S, NEW H, NEW i \in 1..Joins, Base(S, H), Puts(S, H, i), S.joins[i].kind # "free",
           ~IsRead(S.joins[i]), Waits(S, i) = {}, NEW targets \in Seq(Member), NEW reqs,
           \A k \in 1..Len(targets) : reqs[k] = Req(S.joins[i].op, S.joins[i].name, 0),
           NEW T, T = FanOut(S, i, targets, reqs)
    PROVE  /\ Fanning(S, T, H, i)
           /\ Cardinality(Waits(T, i)) \in Nat /\ Cardinality(Waits(T, i)) <= Len(targets)
           /\ T.joins[i].fail = 0 => \A k \in 1..Len(targets) : \E a \in Waits(T, i) : a.to = targets[k]
<1> DEFINE N == Len(targets)
           R == {U \in RouterSet : Fanning(S, U, H, i)}
           Step0(g) == [k \in 0..N |-> IF k = 0 THEN S ELSE FanStep(g[k - 1], i, targets, reqs, k)]
           F == [k \in 1..N |-> [U \in R |-> FanStep(U, i, targets, reqs, k)]]
           f == CHOOSE g : g = Step0(g)
           Fine(k) == /\ f[k] \in R /\ Cardinality(Waits(f[k], i)) <= k
                      /\ f[k].joins[i].fail = 0 =>
                            \A l \in 1..k : \E a \in Waits(f[k], i) : a.to = targets[l]
<1>1. N \in Nat
  BY LenProperties
<1>2. T = f[N]
  BY DEF FanOut, FanStep
<1>3. S \in R
  BY DEF Fanning, Base
<1>4. ASSUME NEW k \in 1..N, NEW U \in R PROVE FanStep(U, i, targets, reqs, k) \in R
  <2> DEFINE V == FanStep(U, i, targets, reqs, k)
  <2>1. V = FanStep(U, i, targets, reqs, k)
    OBVIOUS
  <2> HIDE DEF V
  <2>2. Fanning(S, V, H, i)
    BY <2>1, FanStepGood
  <2>3. QED
    BY <2>1, <2>2 DEF Fanning, Base
<1> HIDE DEF R, N
<1>5. F \in [1..N -> [R -> R]]
  BY <1>4
<1>6. PICK g : IsFold(g, F, S, N, R)
  <2> HIDE DEF F
  <2>1. QED
    BY <1>1, <1>3, <1>5, FoldExists, Zenon
<1>7. g = Step0(g)
  <2>1. \A k \in 0..N : g[k] = Step0(g)[k]
    <3> TAKE k \in 0..N
    <3>1. CASE k = 0
      BY <1>6, <3>1 DEF IsFold
    <3>2. CASE k # 0
      <4>1. k \in 1..N /\ k - 1 \in 0..N
        BY <1>1, <3>2
      <4>2. g[k] = F[k][g[k - 1]] /\ g[k - 1] \in R
        BY <1>6, <4>1 DEF IsFold
      <4>3. QED
        BY <3>2, <4>1, <4>2
    <3>3. QED
      BY <3>1, <3>2
  <2>2. QED
    BY <1>6, <2>1 DEF IsFold
<1>8. f = Step0(f)
  BY <1>7
<1> HIDE DEF f, F
<1>9. \A k \in 0..N : Fine(k)
  <2> DEFINE G == {k \in 0..N : Fine(k)}
  <2>1. 0 \in G
    <3>1. f[0] = S /\ 0 \in 0..N
      BY <1>1, <1>8
    <3>2. Cardinality(Waits(f[0], i)) = 0
      BY <3>1, FS_EmptySet
    <3>3. QED
      BY <1>3, <3>1, <3>2
  <2>2. ASSUME NEW k \in 1..N, k - 1 \in G PROVE k \in G
    <3> DEFINE U == f[k - 1]
               V == f[k]
    <3>1. k \in 0..N /\ k # 0 /\ Fine(k - 1) /\ k \in Nat /\ k \in 1..Len(targets)
      BY <1>1, <2>2 DEF N
    <3>2. V = FanStep(U, i, targets, reqs, k)
      BY <1>8, <3>1
    <3>3. U \in R /\ Fanning(S, U, H, i) /\ reqs[k] = Req(S.joins[i].op, S.joins[i].name, 0)
      BY <3>1 DEF R
    <3> HIDE DEF U, V
    <3>4. /\ Fanning(S, V, H, i) /\ Waits(U, i) \subseteq Waits(V, i)
          /\ Cardinality(Waits(U, i)) \in Nat
          /\ Cardinality(Waits(V, i)) <= Cardinality(Waits(U, i)) + 1
          /\ V.joins[i].fail = 0 => U.joins[i].fail = 0 /\ \E a \in Waits(V, i) : a.to = targets[k]
      BY <3>1, <3>2, <3>3, FanStepGood
    <3>5. V \in R
      BY <3>4 DEF R, Fanning, Base
    <3>6. Cardinality(Waits(V, i)) \in Nat
      <4>1. IsFiniteSet(V.await) /\ Waits(V, i) \subseteq V.await
        BY <3>4 DEF Fanning, Base, AwaitGood, Waits
      <4>2. QED
        BY <4>1, FS_Subset, FS_CardinalityType
    <3>7. Cardinality(Waits(U, i)) <= k - 1
      BY <3>1 DEF U
    <3>8. Cardinality(Waits(V, i)) <= k
      BY <3>1, <3>4, <3>6, <3>7
    <3>9. ASSUME V.joins[i].fail = 0, NEW l \in 1..k PROVE \E a \in Waits(V, i) : a.to = targets[l]
      <4>1. CASE l = k
        BY <3>4, <3>9, <4>1
      <4>2. CASE l # k
        <5>1. l \in 1..(k - 1)
          BY <3>1, <4>2
        <5>2. \E a \in Waits(U, i) : a.to = targets[l]
          BY <3>1, <3>4, <3>9, <5>1 DEF U
        <5>3. QED
          BY <3>4, <5>2
      <4>3. QED
        BY <4>1, <4>2
    <3>10. QED
      BY <3>1, <3>5, <3>8, <3>9 DEF V
  <2> HIDE DEF G
  <2>3. \A k \in 0..N : k \in G
    BY <1>1, <2>1, <2>2, UpTo
  <2>4. QED
    BY <2>3 DEF G
<1>10. Fine(N) /\ Fanning(S, T, H, i)
  BY <1>1, <1>2, <1>9 DEF R
<1>11. Cardinality(Waits(T, i)) \in Nat
  <2>1. IsFiniteSet(T.await) /\ Waits(T, i) \subseteq T.await
    BY <1>10 DEF Fanning, Base, AwaitGood, Waits
  <2>2. QED
    BY <2>1, FS_Subset, FS_CardinalityType
<1>12. QED
  BY <1>2, <1>10, <1>11 DEF N

-----------------------------------------------------------------------------
(* Repair and scrub                                                         *)

\* What the invariant says nothing of may change.
LEMMA BaseAlike ==
    ASSUME NEW S, NEW T, NEW H, NEW x, Base(S, H), Puts(S, H, x), T \in RouterSet,
           T.joins = S.joins, Alike(S, T)
    PROVE  Base(T, H) /\ Puts(T, H, x)
<1>1. \A k \in 1..Joins : Waits(T, k) = Waits(S, k)
  BY WaitsSame DEF Alike
<1>2. \A k \in 1..Joins : JoinGood(T, H, k, T.joins[k])
  BY <1>1, JoinSame DEF Base, Alike
<1>3. \A k \in 1..Joins : PutGood(S, H, k) => PutGood(T, H, k)
  BY <1>1, PutSame DEF Alike
<1>4. AwaitGood(T) /\ OneJoin(T) /\ \A k \in DOMAIN T.out : OutGood(T.out[k], H)
  BY DEF Base, Alike, AwaitGood, OneJoin
<1>5. QED
  BY <1>2, <1>3, <1>4 DEF Base, Puts

\* The two ways the scrub's own state changes.
WithBusy(S, b) == [S EXCEPT !.scrubBusy = b]
WithAt(S, n) == [S EXCEPT !.scrubAt = n]

\* The scrub's own state is nobody's concern.
LEMMA ScrubFields ==
    ASSUME NEW S, NEW H, NEW x, Base(S, H), Puts(S, H, x), NEW b \in BOOLEAN, NEW n \in Member
    PROVE  /\ Base(WithBusy(S, b), H) /\ Puts(WithBusy(S, b), H, x)
           /\ Base(WithAt(S, n), H) /\ Puts(WithAt(S, n), H, x)
<1> DEFINE T == [S EXCEPT !.scrubBusy = b]
           U == [S EXCEPT !.scrubAt = n]
<1>1. S \in RouterSet
  BY DEF Base
<1>2. T \in RouterSet /\ T.joins = S.joins /\ Alike(S, T)
  BY <1>1 DEF RouterSet, Alike
<1>3. U \in RouterSet /\ U.joins = S.joins /\ Alike(S, U)
  BY <1>1 DEF RouterSet, Alike
<1> HIDE DEF T, U
<1>4. Base(T, H) /\ Puts(T, H, x)
  BY <1>2, BaseAlike
<1>5. Base(U, H) /\ Puts(U, H, x)
  BY <1>3, BaseAlike
<1>6. QED
  BY <1>4, <1>5 DEF T, U, WithBusy, WithAt

\* A free slot is well formed.
LEMMA FreeJoinType == FreeJoin \in JoinSet
BY EmptySeq DEF FreeJoin, JoinSet

\* A join that is the router's own is taken for one request.
LEMMA SpawnGood ==
    ASSUME NEW S, NEW H, Base(S, H), Puts(S, H, 0), NEW i \in 1..Joins, S.joins[i].kind = "free",
           NEW m \in Member, NEW j \in JoinSet, j.kind \in {"repair", "scan"}, j.op \in PlainOp,
           j.op # "scan" => j.name \in Name, j.op = "scan" => j.kind = "scan"
    PROVE  /\ Base(Dispatch(Alloc(S, i, j), m, i, Req(j.op, j.name, 0)), H)
           /\ Puts(Dispatch(Alloc(S, i, j), m, i, Req(j.op, j.name, 0)), H, 0)
<1> DEFINE U == Alloc(S, i, j)
           req == Req(j.op, j.name, 0)
           T == Dispatch(U, m, i, req)
<1>1. ~IsRead(j) /\ ~IsPut(j) /\ j.kind \notin Asking /\ U = Alloc(S, i, j)
  BY DEF IsRead, IsPut, Asking
<1>2. Puts(S, H, i)
  BY PutsBut
<1>3. T = Dispatch(U, m, i, req)
  OBVIOUS
<1> HIDE DEF T, U
<1>4. Base(U, H) /\ Puts(U, H, i) /\ U.joins[i] = Live(j)
  BY <1>1, <1>2, AllocGood
<1>5. U.joins[i].kind = j.kind /\ U.joins[i].op = j.op /\ U.joins[i].name = j.name
  BY <1>4, LiveParts
<1>6. ~IsRead(U.joins[i]) /\ ~IsPut(U.joins[i]) /\ U.joins[i].kind # "free"
      /\ req = Req(U.joins[i].op, U.joins[i].name, 0) /\ Base(U, H) /\ Puts(U, H, i)
  BY <1>1, <1>4, <1>5 DEF IsRead, IsPut
<1> HIDE DEF req
<1>7. Base(T, H) /\ Puts(T, H, i) /\ T.joins = U.joins
  BY <1>3, <1>6, DispatchGood
<1>8. Base(T, H) /\ Puts(T, H, 0)
  BY <1>6, <1>7, NotPut
<1>9. QED
  BY <1>8 DEF T, U, req

\* One repair is sent, or is not.
RepairStep(T, m, op, name) ==
    LET i == NextJoin(T)
    IN  IF FreeJoins(T) = {} \/ ~CanDispatch(T, m) THEN T
        ELSE Dispatch(Alloc(T, i, [FreeJoin EXCEPT !.kind = "repair", !.op = op,
                                                   !.name = name, !.need = 1]),
                      m, i, Req(op, name, 0))

\* A repair, sent or not, leaves a good router.
LEMMA RepairStepGood ==
    ASSUME NEW S, NEW H, Base(S, H), Puts(S, H, 0), NEW m \in Member, NEW op \in PutOp,
           NEW name \in Name, NEW T, T = RepairStep(S, m, op, name)
    PROVE  Base(T, H) /\ Puts(T, H, 0)
<1> DEFINE j == [FreeJoin EXCEPT !.kind = "repair", !.op = op, !.name = name, !.need = 1]
           i == NextJoin(S)
<1>2. op \in PlainOp /\ op # "scan"
  BY DEF PlainOp, PutOp
<1>1. /\ j \in JoinSet /\ j.kind = "repair" /\ j.op = op /\ j.name = name
  BY <1>2, FreeJoinType DEF JoinSet
<1>3. CASE FreeJoins(S) = {} \/ ~CanDispatch(S, m)
  BY <1>3 DEF RepairStep
<1>4. CASE ~(FreeJoins(S) = {} \/ ~CanDispatch(S, m))
  <2>1. T = Dispatch(Alloc(S, i, j), m, i, Req(j.op, j.name, 0))
    BY <1>1, <1>4 DEF RepairStep
  <2>2. i \in 1..Joins /\ S.joins[i].kind = "free"
    BY <1>4, NextFree
  <2> HIDE DEF j, i
  <2>3. QED
    BY <1>1, <1>2, <2>1, <2>2, SpawnGood
<1>5. QED
  BY <1>3, <1>4

\* Every member of a list is sent the body, as far as there is room.
LEMMA RepairsGood ==
    ASSUME NEW S, NEW H, Base(S, H), Puts(S, H, 0), NEW members \in Seq(Member), NEW name \in Name,
           NEW T, T = SpawnRepairPuts(S, members, name)
    PROVE  Base(T, H) /\ Puts(T, H, 0)
<1> DEFINE N == Len(members)
           op == IF name \in Key THEN "put_keyed" ELSE "put"
           R == {U \in RouterSet : Base(U, H) /\ Puts(U, H, 0)}
           Step0(g) == [k \in 0..N |-> IF k = 0 THEN S ELSE RepairStep(g[k - 1], members[k], op, name)]
           F == [k \in 1..N |-> [U \in R |-> RepairStep(U, members[k], op, name)]]
           f == CHOOSE g : g = Step0(g)
<1>1. N \in Nat /\ op \in PutOp
  BY LenProperties DEF PutOp
<1>2. T = f[N]
  BY DEF SpawnRepairPuts, RepairStep
<1>3. S \in R
  BY DEF Base
<1>4. ASSUME NEW k \in 1..N, NEW U \in R PROVE RepairStep(U, members[k], op, name) \in R
  <2> DEFINE m == members[k]
             V == RepairStep(U, m, op, name)
  <2>1. m \in Member
    BY ElementOfSeq
  <2>2. V = RepairStep(U, m, op, name)
    OBVIOUS
  <2> HIDE DEF V, op, m
  <2>3. Base(V, H) /\ Puts(V, H, 0)
    BY <1>1, <2>1, <2>2, RepairStepGood
  <2>4. QED
    BY <2>2, <2>3 DEF Base, m
<1> HIDE DEF R, N, op
<1>5. F \in [1..N -> [R -> R]]
  BY <1>4
<1>6. PICK g : IsFold(g, F, S, N, R)
  <2> HIDE DEF F
  <2>1. QED
    BY <1>1, <1>3, <1>5, FoldExists, Zenon
<1>7. g = Step0(g)
  <2>1. \A k \in 0..N : g[k] = Step0(g)[k]
    <3> TAKE k \in 0..N
    <3>1. CASE k = 0
      BY <1>6, <3>1 DEF IsFold
    <3>2. CASE k # 0
      <4>1. k \in 1..N /\ k - 1 \in 0..N
        BY <1>1, <3>2
      <4>2. g[k] = F[k][g[k - 1]] /\ g[k - 1] \in R
        BY <1>6, <4>1 DEF IsFold
      <4>3. QED
        BY <3>2, <4>1, <4>2
    <3>3. QED
      BY <3>1, <3>2
  <2>2. QED
    BY <1>6, <2>1 DEF IsFold
<1>8. f = Step0(f)
  BY <1>7
<1> HIDE DEF f, F
<1>9. \A k \in 0..N : f[k] \in R
  <2> DEFINE G == {k \in 0..N : f[k] \in R}
  <2>1. 0 \in G
    BY <1>1, <1>3, <1>8
  <2>2. ASSUME NEW k \in 1..N, k - 1 \in G PROVE k \in G
    <3>1. k \in 0..N /\ k # 0 /\ f[k - 1] \in R
      BY <1>1, <2>2
    <3>2. f[k] = RepairStep(f[k - 1], members[k], op, name)
      BY <1>8, <3>1
    <3>3. QED
      BY <1>4, <3>1, <3>2
  <2> HIDE DEF G
  <2>3. \A k \in 0..N : k \in G
    BY <1>1, <2>1, <2>2, UpTo
  <2>4. QED
    BY <2>3 DEF G
<1>10. QED
  BY <1>1, <1>2, <1>9 DEF R

\* One name of an inventory is probed, or is not.
LEMMA ProbeGood ==
    ASSUME NEW S, NEW H, Base(S, H), Puts(S, H, 0), NEW name \in Name,
           NEW T, T = ScrubSpawnProbe(S, name)
    PROVE  Base(T, H) /\ Puts(T, H, 0)
<1> DEFINE targets == RankTargets(S, Rank[name])
           i == NextJoin(S)
           j == [FreeJoin EXCEPT !.kind = "probe", !.op = "head", !.name = name,
                                 !.need = Len(targets), !.targets = targets]
           reqs == [k \in DOMAIN targets |-> Req("head", name, 0)]
           A == Alloc(S, i, j)
           U == FanOut(A, i, targets, reqs)
<1>1. targets \in Seq(Member) /\ Len(targets) \in Nat /\ DOMAIN targets = 1..Len(targets)
  BY RankAssumption, TargetsOf, LenProperties
<1> HIDE DEF targets
<1>2. /\ j \in JoinSet /\ j.kind = "probe" /\ j.op = "head" /\ j.name = name
  BY <1>1, FreeJoinType DEF JoinSet, PlainOp, ReadOp
<1>3. /\ j.op \in PlainOp /\ ~IsRead(j) /\ ~IsPut(j) /\ j.kind \notin Asking /\ j.kind # "free"
      /\ j.op # "scan" /\ j.kind # "client" /\ j.kind # "admin_scan"
  BY <1>2 DEF PlainOp, ReadOp, IsRead, IsPut, Asking
<1>4. A = Alloc(S, i, j) /\ U = FanOut(A, i, targets, reqs)
  OBVIOUS
<1>5. \A k \in 1..Len(targets) : reqs[k] = Req(j.op, j.name, 0)
  BY <1>1, <1>2
<1> HIDE DEF j, reqs, A, U
<1>6. CASE Len(targets) < 2 \/ FreeJoins(S) = {}
  BY <1>6 DEF ScrubSpawnProbe, targets
<1>7. CASE ~(Len(targets) < 2 \/ FreeJoins(S) = {})
  <2>1. i \in 1..Joins /\ S.joins[i].kind = "free" /\ Puts(S, H, i)
    BY <1>7, NextFree, PutsBut
  <2>2. T = IF U.joins[i].fail = Len(targets) THEN Free(U, i) ELSE U
    BY <1>7 DEF ScrubSpawnProbe, targets, U, A, j, reqs
  <2> HIDE DEF i
  <2>3. Base(A, H) /\ Puts(A, H, i) /\ A.joins[i] = Live(j) /\ Waits(A, i) = {}
    BY <1>2, <1>3, <1>4, <2>1, AllocGood
  <2>4. /\ A.joins[i].kind = "probe" /\ ~IsRead(A.joins[i]) /\ A.joins[i].op = j.op
        /\ A.joins[i].name = j.name /\ A.joins[i].kind # "free"
    BY <1>2, <2>3, LiveParts DEF IsRead
  <2>5. \A k \in 1..Len(targets) : reqs[k] = Req(A.joins[i].op, A.joins[i].name, 0)
    BY <1>5, <2>4
  <2>6. Fanning(A, U, H, i)
    <3>1. Base(A, H) /\ Puts(A, H, i) /\ Waits(A, i) = {} /\ U = FanOut(A, i, targets, reqs)
      BY <1>4, <2>3
    <3>2. QED
      BY <1>1, <2>1, <2>4, <2>5, <3>1, FanOutGood
  <2>7. Base(U, H) /\ Puts(U, H, i) /\ ~IsPut(U.joins[i])
    BY <2>4, <2>6 DEF Fanning, IsPut
  <2>8. Puts(U, H, 0)
    BY <2>7, NotPut
  <2>9. CASE T = Free(U, i)
    BY <2>1, <2>7, <2>9, FreeGood
  <2>10. CASE T = U
    BY <2>7, <2>8, <2>10
  <2>11. QED
    BY <2>2, <2>9, <2>10
<1>8. QED
  BY <1>6, <1>7

\* A page of the inventory is probed.
LEMMA ProbesGood ==
    ASSUME NEW S, NEW H, Base(S, H), Puts(S, H, 0), NEW names \in Seq(Name),
           NEW T, T = Probed(S, names)
    PROVE  Base(T, H) /\ Puts(T, H, 0)
<1> DEFINE N == Len(names)
           R == {U \in RouterSet : Base(U, H) /\ Puts(U, H, 0)}
           Step0(g) == [k \in 0..N |-> IF k = 0 THEN S ELSE ScrubSpawnProbe(g[k - 1], names[k])]
           F == [k \in 1..N |-> [U \in R |-> ScrubSpawnProbe(U, names[k])]]
           f == CHOOSE g : g = Step0(g)
<1>1. N \in Nat
  BY LenProperties
<1>2. T = f[N]
  BY DEF Probed
<1>3. S \in R
  BY DEF Base
<1>4. ASSUME NEW k \in 1..N, NEW U \in R PROVE ScrubSpawnProbe(U, names[k]) \in R
  <2> DEFINE n == names[k]
             V == ScrubSpawnProbe(U, n)
  <2>1. n \in Name
    BY ElementOfSeq
  <2>2. V = ScrubSpawnProbe(U, n)
    OBVIOUS
  <2> HIDE DEF V, n
  <2>3. Base(V, H) /\ Puts(V, H, 0)
    BY <2>1, <2>2, ProbeGood
  <2>4. QED
    BY <2>2, <2>3 DEF Base, n
<1> HIDE DEF R, N
<1>5. F \in [1..N -> [R -> R]]
  BY <1>4
<1>6. PICK g : IsFold(g, F, S, N, R)
  <2> HIDE DEF F
  <2>1. QED
    BY <1>1, <1>3, <1>5, FoldExists, Zenon
<1>7. g = Step0(g)
  <2>1. \A k \in 0..N : g[k] = Step0(g)[k]
    <3> TAKE k \in 0..N
    <3>1. CASE k = 0
      BY <1>6, <3>1 DEF IsFold
    <3>2. CASE k # 0
      <4>1. k \in 1..N /\ k - 1 \in 0..N
        BY <1>1, <3>2
      <4>2. g[k] = F[k][g[k - 1]] /\ g[k - 1] \in R
        BY <1>6, <4>1 DEF IsFold
      <4>3. QED
        BY <3>2, <4>1, <4>2
    <3>3. QED
      BY <3>1, <3>2
  <2>2. QED
    BY <1>6, <2>1 DEF IsFold
<1>8. f = Step0(f)
  BY <1>7
<1> HIDE DEF f, F
<1>9. \A k \in 0..N : f[k] \in R
  <2> DEFINE G == {k \in 0..N : f[k] \in R}
  <2>1. 0 \in G
    BY <1>1, <1>3, <1>8
  <2>2. ASSUME NEW k \in 1..N, k - 1 \in G PROVE k \in G
    <3>1. k \in 0..N /\ k # 0 /\ f[k - 1] \in R
      BY <1>1, <2>2
    <3>2. f[k] = ScrubSpawnProbe(f[k - 1], names[k])
      BY <1>8, <3>1
    <3>3. QED
      BY <1>4, <3>1, <3>2
  <2> HIDE DEF G
  <2>3. \A k \in 0..N : k \in G
    BY <1>1, <2>1, <2>2, UpTo
  <2>4. QED
    BY <2>3 DEF G
<1>10. QED
  BY <1>1, <1>2, <1>9 DEF R

\* A page is applied: the scrub is idle again and goes to the next member.
LEMMA ScanGood ==
    ASSUME NEW S, NEW H, Base(S, H), Puts(S, H, 0), NEW resp, resp.names \in Seq(Name),
           NEW T, T = ScrubApplyScan(S, resp)
    PROVE  Base(T, H) /\ Puts(T, H, 0)
<1> DEFINE U == WithBusy(S, FALSE)
           n == (U.scrubAt + 1) % Members
           V == WithAt(U, n)
           W == ScrubNextTarget(U)
<1>1. Base(U, H) /\ Puts(U, H, 0)
  <2>1. FALSE \in BOOLEAN /\ 0 \in Member
    BY SizesAssumption DEF Member
  <2>2. QED
    BY <2>1, ScrubFields
<1>2. U.scrubAt \in Member
  BY <1>1, RouterParts DEF Base
<1>3. T = Probed(W, resp.names)
  BY DEF ScrubApplyScan, WithBusy
<1> HIDE DEF U
<1>4. n \in Member
  BY <1>2, SizesAssumption DEF Member
<1>5. W = V
  BY DEF ScrubNextTarget, WithAt
<1> HIDE DEF n
<1>6. Base(V, H) /\ Puts(V, H, 0)
  <2>1. FALSE \in BOOLEAN
    OBVIOUS
  <2>2. QED
    BY <1>1, <1>4, <2>1, ScrubFields
<1> HIDE DEF V, W
<1>7. QED
  BY <1>3, <1>5, <1>6, ProbesGood

\* The scrub asks its next member for its inventory, or goes past it.
LEMMA KickGood ==
    ASSUME NEW S, NEW H, Base(S, H), Puts(S, H, 0), NEW T, T = ScrubKick(S)
    PROVE  Base(T, H) /\ Puts(T, H, 0)
<1> DEFINE i == NextJoin(S)
           j == [FreeJoin EXCEPT !.kind = "scan", !.op = "scan", !.need = 1]
           A == Alloc(S, i, j)
           m == S.scrubAt
           D == Dispatch(A, m, i, Req(j.op, j.name, 0))
           n == (m + 1) % Members
<1>1. S \in RouterSet /\ m \in Member
  BY RouterParts DEF Base
<1>2. j \in JoinSet /\ j.kind = "scan" /\ j.op = "scan" /\ j.name = None
  BY FreeJoinType DEF JoinSet, PlainOp, FreeJoin
<1>3. j.op \in PlainOp
  BY <1>2 DEF PlainOp
<1>4. n \in Member
  BY <1>1, SizesAssumption DEF Member
<1>5. CASE FreeJoins(S) = {}
  BY <1>5 DEF ScrubKick
<1>6. CASE FreeJoins(S) # {} /\ CanDispatch(A, m)
  <2>1. i \in 1..Joins /\ S.joins[i].kind = "free"
    BY <1>6, NextFree
  <2>2. T = WithBusy(D, TRUE)
    BY <1>2, <1>6 DEF ScrubKick, WithBusy
  <2> HIDE DEF i, j, m
  <2>3. Base(D, H) /\ Puts(D, H, 0)
    BY <1>1, <1>2, <1>3, <2>1, SpawnGood
  <2> HIDE DEF D
  <2>4. QED
    BY <1>4, <2>2, <2>3, ScrubFields
<1>7. CASE FreeJoins(S) # {} /\ ~CanDispatch(A, m)
  <2>1. T = WithAt(S, n)
    BY <1>7 DEF ScrubKick, ScrubNextTarget, WithAt
  <2> HIDE DEF n
  <2>2. QED
    <3>1. FALSE \in BOOLEAN
      OBVIOUS
    <3>2. QED
      BY <1>4, <2>1, <3>1, ScrubFields
<1>8. QED
  BY <1>5, <1>6, <1>7

\* What a member may answer.
RespGood(resp) == /\ resp.ok \in BOOLEAN /\ resp.errno \in Errno \cup {None}
                  /\ resp.names \in Seq(Name) /\ (~resp.ok => resp.errno \in Errno)

\* A body is fetched from the members that have it.
LEMMA FetchGood ==
    ASSUME NEW S, NEW H, Base(S, H), Puts(S, H, 0), NEW probe, probe.name \in Name,
           probe.targets \in Seq(Member), NEW T, T = ScrubSpawnFetch(S, probe)
    PROVE  Base(T, H) /\ Puts(T, H, 0)
<1> DEFINE i == NextJoin(S)
           t == Only(probe.targets, probe.present)
           r == Only(probe.targets, probe.missing)
           j == [FreeJoin EXCEPT !.kind = "fetch", !.op = "get", !.name = probe.name, !.need = 1,
                                 !.targets = t, !.repair = r]
           A == Alloc(S, i, j)
<1>1. t \in Seq(Member) /\ r \in Seq(Member)
  BY OnlyOf
<1>2. CASE FreeJoins(S) = {}
  BY <1>2 DEF ScrubSpawnFetch
<1>3. CASE FreeJoins(S) # {}
  <2>1. T = AdvanceRead(A, i)
    BY <1>3 DEF ScrubSpawnFetch
  <2>2. i \in 1..Joins /\ S.joins[i].kind = "free" /\ Puts(S, H, i)
    BY <1>3, NextFree, PutsBut
  <2> HIDE DEF t, r, i
  <2>3. j \in JoinSet /\ j.kind = "fetch" /\ j.op = "get" /\ j.name = probe.name
    BY <1>1, FreeJoinType DEF JoinSet, PlainOp, ReadOp
  <2>4. A = Alloc(S, i, j) /\ j.op \in PlainOp /\ ~IsRead(j) /\ j.kind \notin Asking
    BY <2>3 DEF PlainOp, ReadOp, IsRead, Asking
  <2> HIDE DEF A, j
  <2>5. Base(A, H) /\ Puts(A, H, i) /\ A.joins[i] = Live(j)
    BY <2>2, <2>3, <2>4, AllocGood
  <2>6. A.joins[i].kind = "fetch" /\ ~IsRead(A.joins[i])
    BY <2>3, <2>5, LiveParts DEF IsRead
  <2>7. Base(A, H) /\ Puts(A, H, i)
    BY <2>5
  <2>8. QED
    BY <2>1, <2>2, <2>6, <2>7, AdvanceGood
<1>4. QED
  BY <1>2, <1>3

\* A probe's answer: the last one of them all decides on a fetch.
LEMMA ApplyProbeGood ==
    ASSUME NEW S, NEW H, NEW i \in 1..Joins, Base(S, H), Puts(S, H, i), S.joins[i].kind = "probe",
           NEW m \in Member, NEW resp, RespGood(resp), S.joins[i].name \in Name,
           NEW T, T = ScrubApplyProbe(S, i, m, resp)
    PROVE  Base(T, H) /\ Puts(T, H, 0)
<1> DEFINE o == S.joins[i]
           yes == [o EXCEPT !.ack = o.ack + 1, !.present = o.present \cup {m}]
           no == [o EXCEPT !.fail = o.fail + 1,
                           !.missing = IF resp.errno = "not_found" THEN o.missing \cup {m} ELSE o.missing]
           j == IF resp.ok THEN yes ELSE no
<1>1. S \in RouterSet /\ o \in JoinSet
  BY RouterParts DEF Base
<1>2. /\ j \in JoinSet /\ j.kind = o.kind /\ j.op = o.op /\ j.name = o.name /\ j.client = o.client
      /\ j.gen = o.gen /\ j.targets = o.targets /\ j.attempt = o.attempt /\ j.errno = o.errno
  <2> DEFINE a == o.ack + 1
             p == o.present \cup {m}
             f == o.fail + 1
             g == IF resp.errno = "not_found" THEN o.missing \cup {m} ELSE o.missing
  <2>1. a \in Nat /\ p \subseteq Member /\ f \in Nat /\ g \subseteq Member
    BY <1>1, JoinParts
  <2>2. yes = [o EXCEPT !.ack = a, !.present = p] /\ no = [o EXCEPT !.fail = f, !.missing = g]
    OBVIOUS
  <2> HIDE DEF a, p, f, g, yes, no, o
  <2>3. /\ yes \in JoinSet /\ yes.kind = o.kind /\ yes.op = o.op /\ yes.name = o.name
        /\ yes.client = o.client /\ yes.gen = o.gen /\ yes.targets = o.targets
        /\ yes.attempt = o.attempt /\ yes.errno = o.errno
    BY <1>1, <2>1, <2>2 DEF JoinSet
  <2>4. /\ no \in JoinSet /\ no.kind = o.kind /\ no.op = o.op /\ no.name = o.name
        /\ no.client = o.client /\ no.gen = o.gen /\ no.targets = o.targets
        /\ no.attempt = o.attempt /\ no.errno = o.errno
    BY <1>1, <2>1, <2>2 DEF JoinSet
  <2>5. QED
    BY <2>3, <2>4
<1>3. T = IF j.ack + j.fail # j.need THEN WithJoin(S, i, j)
          ELSE IF j.missing = {} \/ j.present = {} THEN Free(S, i)
          ELSE ScrubSpawnFetch(Free(S, i), j)
  BY DEF ScrubApplyProbe, WithJoin
<1>4. j.kind \notin Asking /\ ~IsRead(j) /\ j.kind # "free" /\ ~IsPut(j)
  BY <1>2 DEF Asking, IsRead, IsPut
<1>5. Recount(S, i, j)
  <2> HIDE DEF j
  <2>1. QED
    BY <1>2, <1>4 DEF Recount
<1> HIDE DEF j
<1>6. CASE T = WithJoin(S, i, j)
  <2>1. Base(T, H) /\ Puts(T, H, i) /\ T.joins[i] = j
    BY <1>5, <1>6, JoinCount
  <2>2. QED
    BY <1>4, <2>1, NotPut
<1>7. CASE T = Free(S, i)
  BY <1>7, FreeGood
<1>8. CASE T = ScrubSpawnFetch(Free(S, i), j)
  <2> DEFINE U == Free(S, i)
  <2>1. Base(U, H) /\ Puts(U, H, 0)
    BY FreeGood
  <2>2. T = ScrubSpawnFetch(U, j)
    BY <1>8
  <2>3. j.name \in Name /\ j.targets \in Seq(Member)
    BY <1>1, <1>2, JoinParts
  <2> HIDE DEF U
  <2>4. QED
    BY <2>1, <2>2, <2>3, FetchGood
<1>9. QED
  BY <1>3, <1>6, <1>7, <1>8

\* A fetched body goes to the members that miss it; a refusal goes on.
LEMMA ApplyFetchGood ==
    ASSUME NEW S, NEW H, NEW i \in 1..Joins, Base(S, H), Puts(S, H, i), S.joins[i].kind = "fetch",
           NEW resp, S.joins[i].name \in Name, NEW T, T = ApplyFetch(S, i, resp)
    PROVE  Base(T, H) /\ Puts(T, H, 0)
<1> DEFINE o == S.joins[i]
           n == o.attempt + 1
           j == [o EXCEPT !.attempt = n]
           U == Free(S, i)
           V == WithJoin(S, i, j)
<1>1. S \in RouterSet /\ o \in JoinSet
  BY RouterParts DEF Base
<1>2. CASE resp.ok
  <2>1. T = SpawnRepairPuts(U, o.repair, o.name)
    BY <1>2 DEF ApplyFetch
  <2>2. Base(U, H) /\ Puts(U, H, 0)
    BY FreeGood
  <2>3. o.repair \in Seq(Member)
    BY <1>1, JoinParts
  <2> DEFINE members == o.repair
             name == o.name
  <2>4. members \in Seq(Member) /\ name \in Name /\ T = SpawnRepairPuts(U, members, name)
    BY <2>1, <2>3
  <2> HIDE DEF U, members, name
  <2>5. QED
    BY <2>2, <2>4, RepairsGood
<1>3. CASE ~resp.ok
  <2>1. n \in Nat \ {0}
    BY <1>1, JoinParts
  <2>2. T = AdvanceRead(V, i)
    BY <1>1, <1>3 DEF ApplyFetch, WithJoin, RouterSet, JoinSet
  <2> HIDE DEF n, o
  <2>3. /\ j \in JoinSet /\ j.kind = o.kind /\ j.op = o.op /\ j.name = o.name /\ j.client = o.client
        /\ j.gen = o.gen /\ j.targets = o.targets
    BY <1>1, <2>1 DEF JoinSet
  <2>4. V = WithJoin(S, i, j)
    OBVIOUS
  <2> HIDE DEF j, V
  <2>5. Recount(S, i, j) /\ j.kind = "fetch"
    BY <2>3 DEF Recount, Asking, IsRead, o
  <2>6. Base(V, H) /\ Puts(V, H, i) /\ V.joins[i] = j
    BY <2>4, <2>5, JoinCount
  <2>7. V.joins[i].kind = "fetch" /\ ~IsRead(V.joins[i])
    BY <2>5, <2>6 DEF IsRead
  <2>8. QED
    BY <2>2, <2>6, <2>7, AdvanceGood
<1>4. QED
  BY <1>2, <1>3

-----------------------------------------------------------------------------
(* Answers of members                                                       *)

\* A join whose answer from member m has just come: it waits for m no more,
\* and has not yet counted it.
Due(S, H, i, m) ==
    LET j == S.joins[i]
    IN  /\ IsPut(j) /\ j.fail = 0 =>
              /\ j.ack + 1 + Cardinality(Waits(S, i)) <= j.need
              /\ \A n \in S.asked[j.client].on : n # m => Covered(S, H, i, n)
        /\ IsRead(j) => /\ Waits(S, i) = {} /\ j.attempt \in DOMAIN j.targets
                        /\ j.targets[j.attempt] = m

\* What an answer says of the member is so.
Truth(j, H, m, resp) ==
    /\ IsPut(j) /\ resp.ok => <<j.name, m>> \in H
    /\ IsRead(j) /\ resp.errno = "not_found" => <<j.name, m>> \notin H
    /\ j.kind \in Asking /\ ~IsRead(j) => resp.errno # "not_found"

\* A write is acknowledged when each of its members has answered for itself.
LEMMA ApplyPutGood ==
    ASSUME NEW S, NEW H, NEW i \in 1..Joins, Base(S, H), Puts(S, H, i), IsPut(S.joins[i]),
           NEW m, Due(S, H, i, m), NEW resp, RespGood(resp), Truth(S.joins[i], H, m, resp),
           NEW T, T = ApplyPut(S, i, resp)
    PROVE  Base(T, H) /\ Puts(T, H, 0)
<1> DEFINE o == S.joins[i]
           c == o.client
           n == o.ack + 1
           j == [o EXCEPT !.ack = n]
<1>1. S \in RouterSet /\ o \in JoinSet /\ JoinGood(S, H, i, o) /\ IsFiniteSet(S.await)
  BY RouterParts DEF Base, AwaitGood
<1>2. o.kind \in Asking /\ o.kind # "free" /\ ~IsRead(o)
  BY DEF IsPut, Asking, IsRead, PutOp, ReadOp
<1>3. o.need \in Nat /\ o.ack \in Nat /\ o.fail \in Nat /\ n \in Nat
  BY <1>1, JoinParts
<1>4. IsFiniteSet(Waits(S, i)) /\ Cardinality(Waits(S, i)) \in Nat
  <2>1. Waits(S, i) \subseteq S.await
    BY DEF Waits
  <2>2. QED
    BY <1>1, <2>1, FS_Subset, FS_CardinalityType
<1>5. CASE ~resp.ok
  <2>1. T = Nak(S, i, resp.errno)
    BY <1>5 DEF ApplyPut
  <2>2. resp.errno \in Errno /\ resp.errno # "not_found"
    BY <1>2, <1>5 DEF RespGood, Truth
  <2> DEFINE r == resp.errno
  <2>3. T = Nak(S, i, r) /\ r \in Errno \cup {Ok} /\ r # Ok /\ r # "not_found"
    BY <2>1, <2>2 DEF Errno, Ok
  <2> HIDE DEF r
  <2>4. QED
    BY <1>2, <2>3, NakGood
<1>6. CASE resp.ok /\ o.fail > 0
  <2>1. T = Nak(S, i, "io")
    BY <1>6 DEF ApplyPut
  <2> DEFINE r == "io"
  <2>2. T = Nak(S, i, r) /\ r \in Errno \cup {Ok} /\ r # Ok /\ r # "not_found"
    BY <2>1 DEF Errno, Ok
  <2> HIDE DEF r
  <2>3. QED
    BY <1>2, <2>2, NakGood
<1>7. CASE resp.ok /\ ~(o.fail > 0) /\ n = o.need
  <2>1. T = Nak(S, i, Ok)
    BY <1>7 DEF ApplyPut
  <2>2. Waits(S, i) = {}
    <3>1. o.ack + 1 + Cardinality(Waits(S, i)) <= o.need
      BY <1>3, <1>7 DEF Due
    <3>2. Cardinality(Waits(S, i)) = 0
      BY <1>3, <1>4, <1>7, <3>1
    <3>3. QED
      BY <1>4, <3>2, FS_EmptySet
  <2>3. \A k \in S.asked[c].on : k \notin S.asked[c].lost => <<o.name, k>> \in H
    <3> TAKE k \in S.asked[c].on
    <3>1. CASE k = m
      BY <1>7, <3>1 DEF Truth
    <3>2. CASE k # m
      <4>1. Covered(S, H, i, k)
        BY <1>3, <1>7, <3>2 DEF Due
      <4>2. QED
        BY <2>2, <4>1 DEF Covered
    <3>3. QED
      BY <3>1, <3>2
  <2>4. {o.name} \X (S.asked[c].on \ S.asked[c].lost) \subseteq H
    <3> SUFFICES ASSUME NEW k \in S.asked[c].on \ S.asked[c].lost
                 PROVE  <<o.name, k>> \in H
      OBVIOUS
    <3>1. QED
      BY <2>3
  <2> DEFINE r == Ok
  <2>5. T = Nak(S, i, r) /\ r \in Errno \cup {Ok} /\ r # "not_found"
    BY <2>1 DEF Ok
  <2> HIDE DEF r
  <2>6. QED
    BY <1>2, <2>4, <2>5, NakGood
<1>8. CASE resp.ok /\ ~(o.fail > 0) /\ n # o.need
  <2>1. T = WithJoin(S, i, j)
    BY <1>1, <1>8 DEF ApplyPut, WithJoin, RouterSet, JoinSet
  <2> HIDE DEF n, o
  <2>2. /\ j \in JoinSet /\ j.kind = o.kind /\ j.op = o.op /\ j.name = o.name /\ j.client = o.client
        /\ j.gen = o.gen /\ j.targets = o.targets /\ j.attempt = o.attempt /\ j.errno = o.errno
        /\ j.need = o.need /\ j.fail = o.fail /\ j.ack = n
    BY <1>1, <1>3 DEF JoinSet
  <2>3. o.errno = "not_found" => ~S.asked[o.client].sure
    BY <1>1, <1>2 DEF JoinGood, AskerGood
  <2> HIDE DEF j
  <2>4. Recount(S, i, j)
    BY <1>2, <2>2, <2>3 DEF Recount, o
  <2>5. Base(T, H) /\ Puts(T, H, i) /\ T.joins[i] = j /\ Waits(T, i) = Waits(S, i) /\ T.asked = S.asked
    BY <2>1, <2>4, JoinCount
  <2>6. PutGood(T, H, i)
    <3>1. j.fail = 0 => n + Cardinality(Waits(S, i)) <= o.need
      BY <2>2 DEF Due, n, o
    <3>2. ASSUME j.fail = 0, NEW k \in S.asked[o.client].on PROVE Covered(T, H, i, k)
      <4>1. CASE k = m
        <5>1. <<o.name, m>> \in H
          BY <1>8 DEF Truth, o
        <5>2. QED
          BY <2>2, <2>5, <4>1, <5>1 DEF Covered
      <4>2. CASE k # m
        <5>1. Covered(S, H, i, k)
          BY <2>2, <3>2, <4>2 DEF Due, o
        <5>2. QED
          BY <2>2, <2>5, <5>1 DEF Covered, o
      <4>3. QED
        BY <4>1, <4>2
    <3>3. QED
      BY <2>2, <2>5, <3>1, <3>2 DEF PutGood
  <2>7. QED
    BY <2>5, <2>6 DEF Puts
<1>9. QED
  BY <1>5, <1>6, <1>7, <1>8

\* A read is answered, or goes on to the next member of its walk.
LEMMA ApplyReadGood ==
    ASSUME NEW S, NEW H, NEW i \in 1..Joins, Base(S, H), Puts(S, H, i), IsRead(S.joins[i]),
           NEW m, Due(S, H, i, m), NEW resp, RespGood(resp), Truth(S.joins[i], H, m, resp),
           NEW T, T = ApplyRead(S, i, resp)
    PROVE  Base(T, H) /\ Puts(T, H, 0)
<1> DEFINE o == S.joins[i]
           c == o.client
           U == Nak(S, i, Ok)
           n == o.attempt + 1
           e == resp.errno
           w == IF resp.errno = "not_found" THEN o.missing \cup {o.targets[o.attempt]} ELSE o.missing
           j == [o EXCEPT !.errno = e, !.attempt = n, !.missing = w]
           V == WithJoin(S, i, j)
<1>1. S \in RouterSet /\ o \in JoinSet /\ JoinGood(S, H, i, o)
  BY RouterParts DEF Base
<1>2. o.kind \in Asking /\ o.kind # "free" /\ ~IsPut(o) /\ o.op \in ReadOp /\ WalkGood(S, H, i, o)
      /\ o.name \in Name
  BY <1>1 DEF IsPut, Asking, IsRead, PutOp, ReadOp, JoinGood
<1>3. Waits(S, i) = {} /\ o.attempt \in DOMAIN o.targets /\ o.targets[o.attempt] = m
  BY DEF Due
<1>4. CASE resp.ok
  <2>1. Base(U, H) /\ Puts(U, H, 0)
    <3> DEFINE r == Ok
    <3>1. U = Nak(S, i, r) /\ r \in Errno \cup {Ok} /\ r # "not_found"
      BY DEF Ok
    <3> HIDE DEF r, U
    <3>2. QED
      BY <1>2, <3>1, NakGood
  <2>2. CASE o.op = "get"
    <3> DEFINE members == Only(o.targets, o.missing)
               name == ContentOf[o.name]
    <3>1. T = SpawnRepairPuts(U, members, name)
      BY <1>4, <2>2 DEF ApplyRead
    <3>2. name \in Name
      BY <1>2, ContentAssumption DEF Name
    <3>3. members \in Seq(Member)
      BY <1>1, JoinParts, OnlyOf
    <3> HIDE DEF U, members, name
    <3>4. QED
      BY <2>1, <3>1, <3>2, <3>3, RepairsGood
  <2>3. CASE o.op # "get"
    <3>1. T = U
      BY <1>4, <2>3 DEF ApplyRead
    <3>2. QED
      BY <2>1, <3>1
  <2>4. QED
    BY <2>2, <2>3
<1>5. CASE ~resp.ok
  <2>1. T = AdvanceRead(V, i)
    <3> DEFINE k == [o EXCEPT !.errno = resp.errno, !.attempt = @ + 1,
                              !.missing = IF resp.errno = "not_found"
                                          THEN @ \cup {o.targets[o.attempt]} ELSE @]
    <3>1. k = j
      BY <1>1 DEF JoinSet
    <3>2. T = AdvanceRead([S EXCEPT !.joins[i] = k], i)
      BY <1>5 DEF ApplyRead
    <3> HIDE DEF k, j
    <3>3. QED
      BY <3>1, <3>2 DEF WithJoin
  <2>2. e \in Errno /\ n \in Nat \ {0} /\ w \subseteq Member
    <3>1. e \in Errno
      BY <1>5 DEF RespGood
    <3>2. o.attempt \in Nat \ {0} /\ o.targets \in Seq(Member) /\ o.missing \subseteq Member
      BY <1>1, JoinParts
    <3>3. o.targets[o.attempt] \in Member
      BY <1>3, <3>2, ElementOfSeq, LenProperties
    <3>4. QED
      BY <3>1, <3>2, <3>3
  <2>3. e = "not_found" => ~S.asked[c].sure
    <3> SUFFICES ASSUME e = "not_found", S.asked[c].sure PROVE FALSE
      OBVIOUS
    <3>1. <<o.name, m>> \notin H
      BY DEF Truth
    <3>2. <<o.name, m>> \in H
      BY <1>2, <1>3 DEF WalkGood
    <3>3. QED
      BY <3>1, <3>2
  <2> HIDE DEF e, n, w, o
  <2>4. /\ j \in JoinSet /\ j.kind = o.kind /\ j.op = o.op /\ j.name = o.name /\ j.client = o.client
        /\ j.gen = o.gen /\ j.targets = o.targets /\ j.errno = e
    BY <1>1, <2>2 DEF JoinSet
  <2>5. V = WithJoin(S, i, j)
    OBVIOUS
  <2> HIDE DEF j, V
  <2>6. Recount(S, i, j) /\ j.kind # "free" /\ IsRead(j)
    BY <1>2, <1>3, <2>3, <2>4 DEF Recount, o, IsRead
  <2>7. Base(V, H) /\ Puts(V, H, i) /\ V.joins[i] = j /\ Waits(V, i) = {}
    BY <1>3, <2>5, <2>6, JoinCount
  <2>8. QED
    <3>1. IsRead(V.joins[i]) /\ V.joins[i].kind # "free" /\ Base(V, H) /\ Puts(V, H, i) /\ Waits(V, i) = {}
      BY <2>6, <2>7
    <3>2. QED
      BY <2>1, <3>1, AdvanceGood
<1>6. QED
  BY <1>4, <1>5

\* A deletion waits for everybody, and one success is enough.
LEMMA ApplyDeleteGood ==
    ASSUME NEW S, NEW H, NEW i \in 1..Joins, Base(S, H), Puts(S, H, i),
           S.joins[i].kind = "client", S.joins[i].op = "delete",
           NEW m, NEW resp, RespGood(resp), Truth(S.joins[i], H, m, resp),
           NEW T, T = ApplyDelete(S, i, resp)
    PROVE  Base(T, H) /\ Puts(T, H, 0)
<1> DEFINE o == S.joins[i]
           yes == [o EXCEPT !.ack = o.ack + 1]
           no == [o EXCEPT !.fail = o.fail + 1, !.errno = resp.errno]
           j == IF resp.ok THEN yes ELSE no
           U == WithJoin(S, i, j)
           r == IF j.ack > 0 THEN Ok ELSE OrIo(j.errno)
<1>1. S \in RouterSet /\ o \in JoinSet /\ JoinGood(S, H, i, o)
  BY RouterParts DEF Base
<1>2. o.kind \in Asking /\ ~IsPut(o) /\ ~IsRead(o)
  BY DEF IsPut, Asking, IsRead, PutOp, ReadOp
<1>3. o.errno = "not_found" => ~S.asked[o.client].sure
  BY <1>1, <1>2 DEF JoinGood, AskerGood
<1>4. ~resp.ok => resp.errno \in Errno /\ resp.errno # "not_found"
  BY <1>2 DEF RespGood, Truth
<1>5. T = IF j.ack + j.fail < j.need THEN U ELSE Nak(U, i, r)
  BY DEF ApplyDelete, WithJoin
<1>6. /\ j \in JoinSet /\ j.kind = o.kind /\ j.op = o.op /\ j.name = o.name /\ j.client = o.client
      /\ j.gen = o.gen /\ j.targets = o.targets /\ j.attempt = o.attempt
      /\ (j.errno = o.errno \/ (j.errno \in Errno /\ j.errno # "not_found"))
  <2> DEFINE a == o.ack + 1
             f == o.fail + 1
             e == resp.errno
  <2>1. a \in Nat /\ f \in Nat
    BY <1>1, JoinParts
  <2>2. yes = [o EXCEPT !.ack = a] /\ no = [o EXCEPT !.fail = f, !.errno = e]
    OBVIOUS
  <2> HIDE DEF a, f, e, yes, no, o
  <2>3. /\ yes \in JoinSet /\ yes.kind = o.kind /\ yes.op = o.op /\ yes.name = o.name
        /\ yes.client = o.client /\ yes.gen = o.gen /\ yes.targets = o.targets
        /\ yes.attempt = o.attempt /\ yes.errno = o.errno
    BY <1>1, <2>1, <2>2 DEF JoinSet
  <2>4. ~resp.ok => /\ no \in JoinSet /\ no.kind = o.kind /\ no.op = o.op /\ no.name = o.name
        /\ no.client = o.client /\ no.gen = o.gen /\ no.targets = o.targets
        /\ no.attempt = o.attempt /\ no.errno \in Errno /\ no.errno # "not_found"
    <3>1. ~resp.ok => e \in Errno /\ e # "not_found"
      BY <1>4 DEF e
    <3>2. QED
      BY <1>1, <2>1, <2>2, <3>1 DEF JoinSet
  <2>5. QED
    BY <2>3, <2>4
<1>7. j.kind = "client" /\ j.kind \in Asking /\ ~IsPut(j) /\ ~IsRead(j)
      /\ (j.errno = "not_found" => ~S.asked[j.client].sure)
  <2> HIDE DEF j
  <2>1. QED
    BY <1>2, <1>3, <1>6 DEF IsPut, IsRead
<1>8. Recount(S, i, j)
  <2> HIDE DEF j
  <2>1. QED
    BY <1>6, <1>7 DEF Recount
<1>9. U = WithJoin(S, i, j)
  OBVIOUS
<1>10. r \in Errno \cup {Ok} /\ (r = "not_found" => j.errno = "not_found")
  <2> HIDE DEF j
  <2>1. j.errno \in Errno \cup {None}
    BY <1>6, JoinParts
  <2>2. QED
    BY <2>1 DEF OrIo, Errno, None, Ok
<1> HIDE DEF j, r, U
<1>11. Base(U, H) /\ Puts(U, H, i) /\ U.joins[i] = j /\ U.asked = S.asked
  BY <1>8, <1>9, JoinCount
<1>12. CASE T = U
  BY <1>7, <1>11, <1>12, NotPut
<1>13. CASE T = Nak(U, i, r)
  <2>1. Base(U, H) /\ Puts(U, H, i) /\ U.joins[i].kind \in Asking /\ ~IsPut(U.joins[i])
        /\ ~(r = "not_found" /\ U.asked[U.joins[i].client].sure)
    BY <1>7, <1>10, <1>11
  <2>2. QED
    BY <1>10, <1>13, <2>1, NakGood
<1>14. QED
  BY <1>5, <1>12, <1>13

\* The answer a join waits for is applied, whatever the join is.
LEMMA ApplyGood ==
    ASSUME NEW S, NEW H, NEW i \in 1..Joins, Base(S, H), Puts(S, H, i), S.joins[i].kind # "free",
           NEW m \in Member, Due(S, H, i, m), NEW resp, RespGood(resp), Truth(S.joins[i], H, m, resp),
           NEW T, T = ApplyJoinResponse(S, i, m, resp)
    PROVE  Base(T, H) /\ Puts(T, H, 0)
<1> DEFINE o == S.joins[i]
           U == Free(S, i)
<1>1. S \in RouterSet /\ o \in JoinSet /\ JoinGood(S, H, i, o)
  BY RouterParts DEF Base
<1>2. o.kind \in {"free", "client", "repair", "admin_scan", "scan", "probe", "fetch"}
  BY <1>1, JoinParts
<1>3. o.op \in PlainOp /\ (o.op # "scan" => o.name \in Name) /\ (o.kind = "client" => o.op # "scan")
  BY <1>1 DEF JoinGood
<1>4. Base(U, H) /\ Puts(U, H, 0)
  BY FreeGood
<1>5. CASE o.kind = "repair"
  <2>1. T = U
    BY <1>5 DEF ApplyJoinResponse
  <2>2. QED
    BY <1>4, <2>1
<1>6. CASE o.kind = "admin_scan"
  <2> DEFINE r == IF resp.ok THEN Ok ELSE resp.errno
  <2>1. T = Nak(S, i, r)
    BY <1>6 DEF ApplyJoinResponse
  <2>2. o.kind \in Asking /\ ~IsPut(o) /\ ~IsRead(o)
    BY <1>6 DEF Asking, IsPut, IsRead
  <2>3. r \in Errno \cup {Ok} /\ r # "not_found"
    BY <2>2 DEF RespGood, Truth, Ok
  <2> HIDE DEF r
  <2>4. QED
    BY <2>1, <2>2, <2>3, NakGood
<1>7. CASE o.kind = "scan"
  <2>1. T = ScrubApplyScan(U, resp)
    BY <1>7 DEF ApplyJoinResponse
  <2>2. resp.names \in Seq(Name)
    BY DEF RespGood
  <2> HIDE DEF U
  <2>3. QED
    BY <1>4, <2>1, <2>2, ScanGood
<1>8. CASE o.kind = "probe"
  <2>1. T = ScrubApplyProbe(S, i, m, resp)
    BY <1>8 DEF ApplyJoinResponse
  <2>2. o.name \in Name
    BY <1>1, <1>8 DEF JoinGood
  <2>3. QED
    BY <1>8, <2>1, <2>2, ApplyProbeGood
<1>9. CASE o.kind = "fetch"
  <2>1. T = ApplyFetch(S, i, resp)
    BY <1>9 DEF ApplyJoinResponse
  <2>2. o.name \in Name
    BY <1>1, <1>9 DEF JoinGood
  <2>3. QED
    BY <1>9, <2>1, <2>2, ApplyFetchGood
<1>10. CASE o.kind = "client" /\ o.op \in PutOp
  <2>1. T = ApplyPut(S, i, resp)
    BY <1>10 DEF ApplyJoinResponse, PutOp
  <2>2. IsPut(o)
    BY <1>10 DEF IsPut
  <2>3. QED
    BY <2>1, <2>2, ApplyPutGood
<1>11. CASE o.kind = "client" /\ o.op \in ReadOp
  <2>1. T = ApplyRead(S, i, resp)
    BY <1>11 DEF ApplyJoinResponse, ReadOp
  <2>2. IsRead(o)
    BY <1>11 DEF IsRead
  <2>3. QED
    BY <2>1, <2>2, ApplyReadGood
<1>12. CASE o.kind = "client" /\ o.op = "delete"
  <2>1. T = ApplyDelete(S, i, resp)
    BY <1>12 DEF ApplyJoinResponse
  <2>2. QED
    BY <1>12, <2>1, ApplyDeleteGood
<1>13. QED
  BY <1>2, <1>3, <1>5, <1>6, <1>7, <1>8, <1>9, <1>10, <1>11, <1>12 DEF PlainOp

-----------------------------------------------------------------------------
(* Requests                                                                 *)

\* A client has just asked for this, and has no join yet.
Asks(S, c, op, name) ==
    /\ S.asked[c].op = op /\ S.asked[c].name = name
    /\ \A k \in 1..Joins : S.joins[k].kind \in Asking => S.joins[k].client # c

\* A request is refused before it has a join.
LEMMA RefuseGood ==
    ASSUME NEW S, NEW H, Base(S, H), Puts(S, H, 0), NEW c \in Client, NEW op \in PlainOp, NEW name,
           Asks(S, c, op, name), NEW r \in {"io", "not_found"},
           r = "not_found" => ~S.asked[c].sure, NEW T, T = Emit(S, c, r)
    PROVE  Base(T, H) /\ Puts(T, H, 0)
<1>1. r \in Errno \cup {Ok} /\ r # Ok
  BY DEF Errno, Ok
<1>2. OutGood([client |-> c, req |-> S.asked[c], ans |-> r], H)
  BY <1>1 DEF OutGood, Asks, PlainOp, PutOp, ReadOp, None
<1>3. QED
  BY <1>1, <1>2, EmitGood DEF Asks

\* A write asks each of its members, and waits for those it could ask.
LEMMA HandlePutGood ==
    ASSUME NEW S, NEW H, Base(S, H), Puts(S, H, 0), NEW c \in Client, NEW op \in PutOp,
           NEW name \in Name, Asks(S, c, op, name),
           S.asked[c].on = Range(RankTargets(S, IF op = "put" THEN PutRank[name] ELSE Rank[name])),
           NEW T, T = HandlePut(S, c, op, name)
    PROVE  Base(T, H) /\ Puts(T, H, 0)
<1> DEFINE ranked == IF op = "put" THEN PutRank[name] ELSE Rank[name]
           targets == RankTargets(S, ranked)
           i == NextJoin(S)
           j == [FreeJoin EXCEPT !.kind = "client", !.op = op, !.name = name,
                                 !.client = c, !.need = Len(targets)]
           reqs == [k \in DOMAIN targets |-> Req(op, name, 0)]
           A == Alloc(S, i, j)
           U == FanOut(A, i, targets, reqs)
<1>0. ranked \in Seq(Member)
  BY RankAssumption
<1>11. S.asked[c].on = Range(targets)
  OBVIOUS
<1>12. T = IF targets = <<>> \/ FreeJoins(S) = {} THEN Emit(S, c, "io")
            ELSE IF U.joins[i].fail = Len(targets) THEN Nak(U, i, "io") ELSE U
  BY DEF HandlePut
<1> HIDE DEF ranked
<1>1. /\ targets \in Seq(Member) /\ Len(targets) \in Nat /\ DOMAIN targets = 1..Len(targets)
      /\ S.asked[c].on = {targets[k] : k \in 1..Len(targets)}
  BY <1>0, <1>11, TargetsOf, LenProperties DEF Range
<1> HIDE DEF targets
<1>2. /\ j \in JoinSet /\ j.kind = "client" /\ j.op = op /\ j.name = name /\ j.client = c
      /\ j.need = Len(targets) /\ j.ack = 0 /\ j.errno = None
  BY <1>1, FreeJoinType DEF JoinSet, PlainOp, PutOp, FreeJoin
<1>3. /\ op \in PlainOp /\ ~IsRead(j) /\ op # "scan" /\ j.kind # "free" /\ j.kind # "admin_scan"
      /\ IsPut(j)
  BY <1>2 DEF PlainOp, PutOp, ReadOp, IsRead, IsPut
<1>4. A = Alloc(S, i, j) /\ U = FanOut(A, i, targets, reqs)
  OBVIOUS
<1>5. \A k \in 1..Len(targets) : reqs[k] = Req(j.op, j.name, 0)
  BY <1>1, <1>2
<1>6. AskerGood(S, j) /\ \A k \in 1..Joins : S.joins[k].kind \in Asking => S.joins[k].client # j.client
  BY <1>2 DEF Asks, AskerGood, None
<1> HIDE DEF j, reqs, A, U
<1>7. CASE targets = <<>> \/ FreeJoins(S) = {}
  <2>1. T = Emit(S, c, "io")
    BY <1>12, <1>7
  <2>2. QED
    BY <1>3, <2>1, RefuseGood
<1>8. CASE ~(targets = <<>> \/ FreeJoins(S) = {})
  <2>1. i \in 1..Joins /\ S.joins[i].kind = "free" /\ Puts(S, H, i)
    BY <1>8, NextFree, PutsBut
  <2>2. T = IF U.joins[i].fail = Len(targets) THEN Nak(U, i, "io") ELSE U
    BY <1>12, <1>8
  <2> HIDE DEF i
  <2>3. /\ Base(A, H) /\ Puts(A, H, i) /\ A.joins[i] = Live(j) /\ Waits(A, i) = {}
        /\ A.asked = S.asked
    BY <1>2, <1>3, <1>4, <1>6, <2>1, AllocGood
  <2>4. /\ A.joins[i].kind = "client" /\ ~IsRead(A.joins[i]) /\ A.joins[i].op = j.op
        /\ A.joins[i].name = j.name /\ A.joins[i].kind # "free" /\ A.joins[i].client = c
        /\ A.joins[i].need = Len(targets) /\ A.joins[i].ack = 0
    BY <1>2, <1>3, <2>3, LiveParts DEF IsRead
  <2>5. \A k \in 1..Len(targets) : reqs[k] = Req(A.joins[i].op, A.joins[i].name, 0)
    BY <1>5, <2>4
  <2>6. /\ Fanning(A, U, H, i)
        /\ Cardinality(Waits(U, i)) \in Nat /\ Cardinality(Waits(U, i)) <= Len(targets)
        /\ U.joins[i].fail = 0 => \A k \in 1..Len(targets) : \E a \in Waits(U, i) : a.to = targets[k]
    <3>1. Base(A, H) /\ Puts(A, H, i) /\ Waits(A, i) = {} /\ U = FanOut(A, i, targets, reqs)
      BY <1>4, <2>3
    <3>2. QED
      BY <1>1, <2>1, <2>4, <2>5, <3>1, FanOutGood
  <2>7. /\ Base(U, H) /\ Puts(U, H, i) /\ U.asked = S.asked /\ U.joins[i].client = c
        /\ U.joins[i].kind = "client" /\ U.joins[i].need = Len(targets) /\ U.joins[i].ack = 0
    BY <2>3, <2>4, <2>6 DEF Fanning
  <2>8. PutGood(U, H, i)
    <3> SUFFICES ASSUME U.joins[i].fail = 0
                 PROVE  /\ U.joins[i].ack + Cardinality(Waits(U, i)) <= U.joins[i].need
                        /\ \A m \in U.asked[U.joins[i].client].on : Covered(U, H, i, m)
      BY DEF PutGood
    <3>1. U.joins[i].ack + Cardinality(Waits(U, i)) <= U.joins[i].need
      BY <1>1, <2>6, <2>7
    <3>2. ASSUME NEW m \in U.asked[U.joins[i].client].on PROVE Covered(U, H, i, m)
      <4>1. \E a \in Waits(U, i) : a.to = m
        BY <1>1, <2>6, <2>7, <3>2
      <4>2. QED
        BY <4>1 DEF Covered
    <3>3. QED
      BY <3>1, <3>2
  <2>9. Puts(U, H, 0)
    BY <2>7, <2>8 DEF Puts
  <2>10. CASE T = Nak(U, i, "io")
    <3>1. U.joins[i].kind \in Asking /\ "io" \in Errno \cup {Ok} /\ "io" # Ok /\ "io" # "not_found"
      BY <2>7 DEF Asking, Errno, Ok
    <3>2. QED
      BY <2>1, <2>7, <2>10, <3>1, NakGood
  <2>11. CASE T = U
    BY <2>7, <2>9, <2>11
  <2>12. QED
    BY <2>2, <2>10, <2>11
<1>9. QED
  BY <1>7, <1>8

\* A delete asks each member of the replica set.
LEMMA HandleDeleteGood ==
    ASSUME NEW S, NEW H, Base(S, H), Puts(S, H, 0), NEW c \in Client,
           NEW name \in Name, Asks(S, c, "delete", name),
           RankTargets(S, Rank[name]) = <<>> => ~S.asked[c].sure,
           NEW T, T = HandleDelete(S, c, name)
    PROVE  Base(T, H) /\ Puts(T, H, 0)
<1> DEFINE targets == RankTargets(S, Rank[name])
           i == NextJoin(S)
           j == [FreeJoin EXCEPT !.kind = "client", !.op = "delete", !.name = name,
                                 !.client = c, !.need = Len(targets)]
           reqs == [k \in DOMAIN targets |-> Req("delete", name, 0)]
           A == Alloc(S, i, j)
           U == FanOut(A, i, targets, reqs)
<1>0. T = IF targets = <<>> THEN Emit(S, c, "not_found")
          ELSE IF FreeJoins(S) = {} THEN Emit(S, c, "io")
          ELSE IF U.joins[i].fail = Len(targets) THEN Nak(U, i, "io") ELSE U
  BY DEF HandleDelete
<1>1. /\ targets \in Seq(Member) /\ Len(targets) \in Nat /\ DOMAIN targets = 1..Len(targets)
      /\ targets = <<>> => ~S.asked[c].sure
  BY RankAssumption, TargetsOf, LenProperties
<1> HIDE DEF targets
<1>2. /\ j \in JoinSet /\ j.kind = "client" /\ j.op = "delete" /\ j.name = name /\ j.client = c
      /\ j.errno = None
  BY <1>1, FreeJoinType DEF JoinSet, PlainOp, FreeJoin
<1>3. /\ "delete" \in PlainOp /\ ~IsRead(j) /\ j.kind # "free" /\ j.kind # "admin_scan"
      /\ ~IsPut(j) /\ j.op # "scan"
  BY <1>2 DEF PlainOp, PutOp, ReadOp, IsRead, IsPut
<1>4. A = Alloc(S, i, j) /\ U = FanOut(A, i, targets, reqs)
  OBVIOUS
<1>5. \A k \in 1..Len(targets) : reqs[k] = Req(j.op, j.name, 0)
  BY <1>1, <1>2
<1>6. AskerGood(S, j) /\ \A k \in 1..Joins : S.joins[k].kind \in Asking => S.joins[k].client # j.client
  BY <1>2 DEF Asks, AskerGood, None
<1> HIDE DEF j, reqs, A, U
<1>7. CASE targets = <<>> \/ FreeJoins(S) = {}
  <2>1. PICK r \in {"io", "not_found"} : T = Emit(S, c, r) /\ (r = "not_found" => ~S.asked[c].sure)
    BY <1>0, <1>1, <1>7
  <2>2. QED
    BY <1>3, <2>1, RefuseGood
<1>8. CASE ~(targets = <<>> \/ FreeJoins(S) = {})
  <2>1. i \in 1..Joins /\ S.joins[i].kind = "free" /\ Puts(S, H, i)
    BY <1>8, NextFree, PutsBut
  <2>2. T = IF U.joins[i].fail = Len(targets) THEN Nak(U, i, "io") ELSE U
    BY <1>0, <1>8
  <2> HIDE DEF i
  <2>3. Base(A, H) /\ Puts(A, H, i) /\ A.joins[i] = Live(j) /\ Waits(A, i) = {}
    BY <1>2, <1>3, <1>4, <1>6, <2>1, AllocGood
  <2>4. /\ A.joins[i].kind = "client" /\ ~IsRead(A.joins[i]) /\ A.joins[i].op = j.op
        /\ A.joins[i].name = j.name /\ A.joins[i].kind # "free" /\ A.joins[i].op = "delete"
    BY <1>2, <1>3, <2>3, LiveParts DEF IsRead
  <2>5. \A k \in 1..Len(targets) : reqs[k] = Req(A.joins[i].op, A.joins[i].name, 0)
    BY <1>5, <2>4
  <2>6. Fanning(A, U, H, i)
    <3>1. Base(A, H) /\ Puts(A, H, i) /\ Waits(A, i) = {} /\ U = FanOut(A, i, targets, reqs)
      BY <1>4, <2>3
    <3>2. QED
      BY <1>1, <2>1, <2>4, <2>5, <3>1, FanOutGood
  <2>7. Base(U, H) /\ Puts(U, H, i) /\ ~IsPut(U.joins[i]) /\ U.joins[i].kind = "client"
    BY <2>4, <2>6 DEF Fanning, IsPut, PutOp
  <2>8. Puts(U, H, 0)
    BY <2>7, NotPut
  <2>9. CASE T = Nak(U, i, "io")
    <3>1. U.joins[i].kind \in Asking /\ "io" \in Errno \cup {Ok} /\ "io" # Ok /\ "io" # "not_found"
      BY <2>7 DEF Asking, Errno, Ok
    <3>2. QED
      BY <2>1, <2>7, <2>9, <3>1, NakGood
  <2>10. CASE T = U
    BY <2>7, <2>8, <2>10
  <2>11. QED
    BY <2>2, <2>9, <2>10
<1>9. QED
  BY <1>7, <1>8

\* A read starts its walk; what is sure to be found is on every member of it.
LEMMA HandleReadGood ==
    ASSUME NEW S, NEW H, Base(S, H), Puts(S, H, 0), NEW c \in Client, NEW op \in ReadOp,
           NEW name \in Name, Asks(S, c, op, name),
           S.asked[c].sure => /\ RankTargets(S, Rank[name]) # <<>>
                              /\ \A m \in Range(RankTargets(S, Rank[name])) : <<name, m>> \in H,
           NEW T, T = HandleRead(S, c, op, name)
    PROVE  Base(T, H) /\ Puts(T, H, 0)
<1> DEFINE ranked == RankTargets(S, Rank[name])
           targets == QuietLast(S, ranked)
           i == NextJoin(S)
           j == [FreeJoin EXCEPT !.kind = "client", !.op = op, !.name = name, !.client = c,
                                 !.need = 1, !.targets = targets]
           A == Alloc(S, i, j)
<1>0. T = IF targets = <<>> THEN Emit(S, c, "not_found")
          ELSE IF FreeJoins(S) = {} THEN Emit(S, c, "io") ELSE AdvanceRead(A, i)
  BY DEF HandleRead
<1>1. /\ ranked \in Seq(Member)
      /\ S.asked[c].sure => ranked # <<>> /\ \A k \in DOMAIN ranked : <<name, ranked[k]>> \in H
  BY RankAssumption, TargetsOf DEF Range
<1> HIDE DEF ranked
<1>2. /\ targets \in Seq(Member)
      /\ targets = <<>> => ~S.asked[c].sure
      /\ S.asked[c].sure => \A k \in DOMAIN targets : <<name, targets[k]>> \in H
  BY <1>1, QuietLastOf
<1> HIDE DEF targets
<1>3. /\ j \in JoinSet /\ j.kind = "client" /\ j.op = op /\ j.name = name /\ j.client = c
      /\ j.errno = None /\ j.targets = targets
  BY <1>2, FreeJoinType DEF JoinSet, PlainOp, ReadOp, FreeJoin
<1>4. /\ op \in PlainOp /\ IsRead(j) /\ j.kind # "free" /\ j.kind # "admin_scan" /\ j.op # "scan"
  BY <1>3 DEF PlainOp, ReadOp, IsRead
<1>5. A = Alloc(S, i, j)
  OBVIOUS
<1>6. AskerGood(S, j) /\ \A k \in 1..Joins : S.joins[k].kind \in Asking => S.joins[k].client # j.client
  BY <1>3 DEF Asks, AskerGood, None
<1>10. S.asked[j.client].sure => \A k \in DOMAIN j.targets : <<j.name, j.targets[k]>> \in H
  BY <1>2, <1>3
<1> HIDE DEF j, A
<1>7. CASE targets = <<>> \/ FreeJoins(S) = {}
  <2>1. PICK r \in {"io", "not_found"} : T = Emit(S, c, r) /\ (r = "not_found" => ~S.asked[c].sure)
    BY <1>0, <1>2, <1>7
  <2>2. QED
    BY <1>4, <2>1, RefuseGood
<1>8. CASE ~(targets = <<>> \/ FreeJoins(S) = {})
  <2>1. i \in 1..Joins /\ S.joins[i].kind = "free" /\ Puts(S, H, i)
    BY <1>8, NextFree, PutsBut
  <2>2. T = AdvanceRead(A, i)
    BY <1>0, <1>8
  <2> HIDE DEF i
  <2>3. Base(A, H) /\ Puts(A, H, i) /\ A.joins[i] = Live(j) /\ Waits(A, i) = {}
    BY <1>3, <1>4, <1>5, <1>6, <1>10, <2>1, AllocGood
  <2>4. A.joins[i].kind # "free" /\ IsRead(A.joins[i])
    BY <1>3, <1>4, <2>3, LiveParts DEF IsRead
  <2>5. QED
    BY <2>1, <2>2, <2>3, <2>4, AdvanceGood
<1>9. QED
  BY <1>7, <1>8

\* The inventory of member 0 is asked for.
LEMMA HandleAdminScanGood ==
    ASSUME NEW S, NEW H, Base(S, H), Puts(S, H, 0), NEW c \in Client, Asks(S, c, "scan", None),
           NEW T, T = HandleAdminScan(S, c)
    PROVE  Base(T, H) /\ Puts(T, H, 0)
<1> DEFINE i == NextJoin(S)
           j == [FreeJoin EXCEPT !.kind = "admin_scan", !.op = "scan", !.client = c, !.need = 1]
           A == Alloc(S, i, j)
<1>0. T = IF FreeJoins(S) = {} THEN Emit(S, c, "io")
          ELSE IF CanDispatch(A, 0) THEN Dispatch(A, 0, i, Req("scan", None, 0)) ELSE Nak(A, i, "io")
  BY DEF HandleAdminScan
<1>1. 0 \in Member
  BY SizesAssumption DEF Member
<1>2. /\ j \in JoinSet /\ j.kind = "admin_scan" /\ j.op = "scan" /\ j.name = None /\ j.client = c
      /\ j.errno = None
  BY FreeJoinType DEF JoinSet, PlainOp, FreeJoin
<1>3. "scan" \in PlainOp /\ ~IsRead(j) /\ ~IsPut(j) /\ j.kind # "free"
  BY <1>2 DEF PlainOp, PutOp, ReadOp, IsRead, IsPut
<1>4. A = Alloc(S, i, j)
  OBVIOUS
<1>5. AskerGood(S, j) /\ \A k \in 1..Joins : S.joins[k].kind \in Asking => S.joins[k].client # j.client
  BY <1>2 DEF Asks, AskerGood, None
<1> HIDE DEF j, A
<1>6. CASE FreeJoins(S) = {}
  <2>1. T = Emit(S, c, "io")
    BY <1>0, <1>6
  <2>2. QED
    BY <1>3, <2>1, RefuseGood
<1>7. CASE FreeJoins(S) # {}
  <2>1. i \in 1..Joins /\ S.joins[i].kind = "free" /\ Puts(S, H, i)
    BY <1>7, NextFree, PutsBut
  <2>2. T = Dispatch(A, 0, i, Req("scan", None, 0)) \/ T = Nak(A, i, "io")
    BY <1>0, <1>7
  <2> HIDE DEF i
  <2>3. Base(A, H) /\ Puts(A, H, i) /\ A.joins[i] = Live(j) /\ Waits(A, i) = {}
    BY <1>2, <1>3, <1>4, <1>5, <2>1, AllocGood
  <2>4. /\ A.joins[i].kind = "admin_scan" /\ A.joins[i].kind # "free" /\ A.joins[i].op = "scan"
        /\ A.joins[i].name = None /\ ~IsRead(A.joins[i]) /\ ~IsPut(A.joins[i])
    BY <1>2, <1>3, <2>3, LiveParts DEF IsRead, IsPut
  <2>5. CASE T = Nak(A, i, "io")
    <3>1. A.joins[i].kind \in Asking /\ "io" \in Errno \cup {Ok} /\ "io" # Ok /\ "io" # "not_found"
      BY <2>4 DEF Asking, Errno, Ok
    <3>2. QED
      BY <2>1, <2>3, <2>5, <3>1, NakGood
  <2>6. CASE T = Dispatch(A, 0, i, Req("scan", None, 0))
    <3> DEFINE req == Req("scan", None, 0)
    <3>1. req = Req(A.joins[i].op, A.joins[i].name, 0) /\ T = Dispatch(A, 0, i, req)
      BY <2>4, <2>6
    <3> HIDE DEF req
    <3>2. Base(T, H) /\ Puts(T, H, i) /\ T.joins = A.joins
      BY <1>1, <2>1, <2>3, <2>4, <3>1, DispatchGood
    <3>3. QED
      BY <2>4, <3>2, NotPut
  <2>7. QED
    BY <2>2, <2>5, <2>6
<1>8. QED
  BY <1>6, <1>7

-----------------------------------------------------------------------------
(* Steps                                                                    *)

\* More may be held.
LEMMA MoreHeld ==
    ASSUME NEW S, NEW H, NEW G, H \subseteq G, Base(S, H), Puts(S, H, 0)
    PROVE  Base(S, G) /\ Puts(S, G, 0)
<1>1. ASSUME NEW i \in 1..Joins PROVE JoinGood(S, G, i, S.joins[i])
  <2>1. JoinGood(S, H, i, S.joins[i])
    BY DEF Base
  <2>2. WalkGood(S, H, i, S.joins[i]) => WalkGood(S, G, i, S.joins[i])
    BY DEF WalkGood
  <2>3. QED
    BY <2>1, <2>2 DEF JoinGood
<1>2. ASSUME NEW k \in DOMAIN S.out PROVE OutGood(S.out[k], G)
  <2>1. OutGood(S.out[k], H)
    BY DEF Base
  <2>2. QED
    BY <2>1 DEF OutGood
<1>3. ASSUME NEW i \in 1..Joins PROVE PutGood(S, G, i)
  <2>1. PutGood(S, H, i)
    BY SizesAssumption DEF Puts
  <2>2. \A m : Covered(S, H, i, m) => Covered(S, G, i, m)
    BY DEF Covered
  <2>3. QED
    BY <2>1, <2>2 DEF PutGood
<1>4. QED
  BY <1>1, <1>2, <1>3 DEF Base, Puts

\* Nothing is sent that was not, and nothing awaited that was not.
Fewer(S, T) ==
    /\ T \in RouterSet /\ T.joins = S.joins /\ T.asked = S.asked /\ T.out = S.out
    /\ T.await \subseteq S.await
    /\ \A m \in Member : \A k \in DOMAIN T.q[m] : \E l \in DOMAIN S.q[m] : T.q[m][k] = S.q[m][l]

\* Letters served and answers no longer awaited do no harm.
LEMMA FewerGood ==
    ASSUME NEW S, NEW T, NEW H, Base(S, H), Fewer(S, T)
    PROVE  Base(T, H)
<1>1. S.await \subseteq AwaitSet /\ T \in RouterSet
  BY RouterParts DEF Base, Fewer
<1>2. \A i \in 1..Joins : Waits(T, i) \subseteq Waits(S, i)
  BY DEF Waits, Fewer
<1>3. ASSUME NEW i \in 1..Joins PROVE JoinGood(T, H, i, T.joins[i])
  <2>1. JoinGood(S, H, i, S.joins[i])
    BY DEF Base
  <2>2. \A a \in Waits(T, i) : a.to \in Member
    BY <1>1, <1>2 DEF Waits, AwaitSet
  <2>3. \A a \in Waits(T, i) : \A k \in DOMAIN T.q[a.to] :
               \E l \in DOMAIN S.q[a.to] : T.q[a.to][k] = S.q[a.to][l]
    BY <2>2 DEF Fewer
  <2>4. T.asked = S.asked /\ T.joins = S.joins
    BY DEF Fewer
  <2>5. JoinGood(T, H, i, S.joins[i])
    BY <1>2, <2>1, <2>3, <2>4, JoinLess
  <2>6. QED
    BY <2>4, <2>5
<1>4. AwaitGood(T)
  <2>1. IsFiniteSet(T.await)
    BY FS_Subset DEF Fewer, Base, AwaitGood
  <2>2. QED
    BY <2>1 DEF Fewer, Base, AwaitGood
<1>5. OneJoin(T) /\ \A k \in DOMAIN T.out : OutGood(T.out[k], H)
  BY DEF Fewer, Base, OneJoin
<1>6. QED
  BY <1>1, <1>3, <1>4, <1>5 DEF Base

\* No answer is awaited any less.
LEMMA KeepGood ==
    ASSUME NEW S, NEW T, NEW H, Base(S, H), Puts(S, H, 0), Fewer(S, T), T.await = S.await
    PROVE  Base(T, H) /\ Puts(T, H, 0)
<1>1. Base(T, H)
  BY FewerGood
<1>2. ASSUME NEW i \in 1..Joins PROVE PutGood(S, H, i) => PutGood(T, H, i)
  BY PutSame, WaitsSame DEF Fewer
<1>3. QED
  BY <1>1, <1>2 DEF Puts

\* One answer is taken: for the join that asked it is due, for others it is
\* nothing.
LEMMA AnswerGood ==
    ASSUME NEW S, NEW R, NEW H, Base(S, H), Puts(S, H, 0), Fewer(S, R), NEW a \in S.await,
           R.await = S.await \ {a}, NEW resp, RespGood(resp),
           S.joins[a.join].kind # "free" /\ a.gen = 1 => Truth(S.joins[a.join], H, a.to, resp),
           NEW T, T = AnswerJoin(R, a, resp)
    PROVE  Base(T, H) /\ Puts(T, H, 0)
<1> DEFINE i == a.join
           o == S.joins[i]
<1>1. /\ S \in RouterSet /\ i \in 1..Joins /\ a.to \in Member /\ a.gen \in {0, 1} /\ i # 0
      /\ o \in JoinSet /\ JoinGood(S, H, i, o) /\ PutGood(S, H, i)
      /\ IsFiniteSet(S.await)
  <2>1. S \in RouterSet
    BY DEF Base
  <2>2. a \in AwaitSet /\ S.joins \in [1..Joins -> JoinSet]
    BY <2>1, RouterParts
  <2>3. i \in 1..Joins /\ a.to \in Member /\ a.gen \in {0, 1}
    BY <2>2 DEF AwaitSet
  <2>4. i # 0
    BY <2>3, SizesAssumption
  <2>5. QED
    BY <2>1, <2>2, <2>3, <2>4 DEF Base, Puts, AwaitGood
<1>2. Base(R, H)
  BY FewerGood
<1>3. R.joins = S.joins /\ R.asked = S.asked
  BY DEF Fewer
<1>4. /\ \A k \in 1..Joins : k # i => Waits(R, k) = Waits(S, k)
      /\ Waits(R, i) = Waits(S, i) \ {a}
      /\ a.gen = 0 => Waits(R, i) = Waits(S, i)
  BY <1>1 DEF Waits
<1>5. Puts(R, H, i)
  <2> SUFFICES ASSUME NEW k \in 1..Joins, k # i PROVE PutGood(R, H, k)
    BY DEF Puts
  <2>1. PutGood(S, H, k)
    BY SizesAssumption DEF Puts
  <2>2. Waits(R, k) = Waits(S, k)
    BY <1>4
  <2>3. QED
    BY <1>3, <2>1, <2>2, PutSame
<1>6. CASE a.gen = 0
  <2>1. Puts(R, H, 0)
    <3>1. PutGood(R, H, i)
      BY <1>1, <1>3, <1>4, <1>6, PutSame
    <3>2. QED
      BY <1>5, <3>1 DEF Puts
  <2>2. o.kind = "free" \/ o.gen # a.gen
    BY <1>1, <1>6 DEF JoinGood
  <2>3. T = R
    BY <1>3, <2>2 DEF AnswerJoin
  <2>4. QED
    BY <1>2, <2>1, <2>3
<1>7. CASE a.gen = 1
  <2>1. a \in Waits(S, i)
    BY <1>7 DEF Waits
  <2>2. o.kind # "free" /\ o.gen = 1
    BY <1>1, <2>1 DEF JoinGood
  <2>3. T = ApplyJoinResponse(R, i, a.to, resp)
    BY <1>3, <1>7, <2>2 DEF AnswerJoin
  <2>4. Truth(R.joins[i], H, a.to, resp)
    BY <1>3, <1>7, <2>2
  <2>5. Due(R, H, i, a.to)
    <3>1. ASSUME IsPut(o), o.fail = 0
          PROVE  /\ o.ack + 1 + Cardinality(Waits(R, i)) <= o.need
                 /\ \A n \in S.asked[o.client].on : n # a.to => Covered(R, H, i, n)
      <4>1. /\ o.ack + Cardinality(Waits(S, i)) <= o.need
            /\ \A n \in S.asked[o.client].on : Covered(S, H, i, n)
        BY <1>1, <3>1 DEF PutGood
      <4>2. IsFiniteSet(Waits(S, i))
        <5>1. Waits(S, i) \subseteq S.await
          BY DEF Waits
        <5>2. QED
          BY <1>1, <5>1, FS_Subset
      <4>3. Cardinality(Waits(R, i)) = Cardinality(Waits(S, i)) - 1
            /\ Cardinality(Waits(R, i)) \in Nat /\ Cardinality(Waits(S, i)) \in Nat
        <5>1. IsFiniteSet(Waits(R, i))
          BY <1>4, <4>2, FS_Subset
        <5>2. QED
          BY <1>4, <2>1, <4>2, <5>1, FS_RemoveElement, FS_CardinalityType
      <4>4. o.ack \in Nat /\ o.need \in Nat
        BY <1>1, JoinParts
      <4>5. ASSUME NEW n, n # a.to, Covered(S, H, i, n) PROVE Covered(R, H, i, n)
        BY <1>3, <1>4, <4>5 DEF Covered
      <4>6. QED
        BY <4>1, <4>3, <4>4, <4>5
    <3>2. ASSUME IsRead(o)
          PROVE  Waits(R, i) = {} /\ o.attempt \in DOMAIN o.targets /\ o.targets[o.attempt] = a.to
      <4>1. WalkGood(S, H, i, o)
        BY <1>1, <3>2 DEF JoinGood
      <4>2. QED
        BY <1>4, <2>1, <4>1 DEF WalkGood
    <3>3. QED
      BY <1>3, <3>1, <3>2 DEF Due
  <2>6. QED
    BY <1>1, <1>2, <1>3, <1>5, <2>2, <2>3, <2>4, <2>5, ApplyGood
<1>8. QED
  BY <1>1, <1>6, <1>7

\* What the history forgets when members lose bodies.
Forgets(S, T, gone) ==
    \A c \in Client :
        /\ T.asked[c].op = S.asked[c].op /\ T.asked[c].name = S.asked[c].name
        /\ T.asked[c].on = S.asked[c].on
        /\ \A m \in Member : m \in S.asked[c].lost \/ <<S.asked[c].name, m>> \in gone
                             => m \in T.asked[c].lost
        /\ T.asked[c].sure => S.asked[c].sure /\ \A m \in Member : <<S.asked[c].name, m>> \notin gone

\* Nothing is wrong with a router whose history has been told of what is gone.
LEMMA ForgetGood ==
    ASSUME NEW S, NEW T, NEW H, NEW G, NEW gone, Base(S, H), Puts(S, H, 0), T \in RouterSet,
           T.joins = S.joins, T.await = S.await, T.q = S.q, T.out = <<>>,
           Forgets(S, T, gone), H \ gone \subseteq G
    PROVE  Base(T, G) /\ Puts(T, G, 0)
<1>1. \A i \in 1..Joins : Waits(T, i) = Waits(S, i)
  BY WaitsSame
<1>2. S \in RouterSet /\ S.joins \in [1..Joins -> JoinSet] /\ S.asked \in [Client -> AskSet]
  BY RouterParts DEF Base
<1>3. ASSUME NEW i \in 1..Joins PROVE JoinGood(T, G, i, T.joins[i]) /\ PutGood(T, G, i)
  <2> DEFINE j == S.joins[i]
  <2>1. j \in JoinSet /\ JoinGood(S, H, i, j) /\ PutGood(S, H, i) /\ T.joins[i] = j
    BY <1>2, SizesAssumption DEF Base, Puts
  <2> HIDE DEF j
  <2>2. Waits(T, i) = Waits(S, i) /\ T.q = S.q
    BY <1>1
  <2>3. LettersGood(S, i, j) => LettersGood(T, i, j)
    BY <2>2 DEF LettersGood
  <2>4. AskerGood(S, j) => AskerGood(T, j) /\ j.client \in Client
    BY DEF AskerGood, Forgets
  <2>5. ASSUME AskerGood(S, j), WalkGood(S, H, i, j) PROVE WalkGood(T, G, i, j)
    <3>1. j.client \in Client /\ S.asked[j.client].name = j.name
      BY <2>5 DEF AskerGood
    <3>2. ASSUME T.asked[j.client].sure, NEW k \in DOMAIN j.targets
          PROVE  <<j.name, j.targets[k]>> \in G
      <4>1. j.targets[k] \in Member
        BY <2>1, <3>2, JoinParts, ElementOfSeq, LenProperties
      <4>2. S.asked[j.client].sure /\ <<j.name, j.targets[k]>> \notin gone
        BY <3>1, <3>2, <4>1 DEF Forgets
      <4>3. <<j.name, j.targets[k]>> \in H
        BY <2>5, <3>2, <4>2 DEF WalkGood
      <4>4. QED
        BY <4>2, <4>3
    <3>3. QED
      BY <2>2, <2>5, <3>2 DEF WalkGood
  <2>6. IsRead(j) => j.kind \in Asking
    BY DEF IsRead, Asking
  <2>7. JoinGood(T, G, i, j)
    BY <2>1, <2>2, <2>3, <2>4, <2>5, <2>6 DEF JoinGood
  <2>8. PutGood(T, G, i)
    <3> SUFFICES ASSUME IsPut(j), j.fail = 0
                 PROVE  /\ j.ack + Cardinality(Waits(T, i)) <= j.need
                        /\ \A m \in T.asked[j.client].on : Covered(T, G, i, m)
      BY <2>1 DEF PutGood
    <3>0. S.joins[i] = j
      BY DEF j
    <3>1. /\ j.ack + Cardinality(Waits(S, i)) <= j.need
          /\ \A m \in S.asked[j.client].on : Covered(S, H, i, m)
      BY <2>1, <3>0 DEF PutGood
    <3>2. j.client \in Client /\ S.asked[j.client].name = j.name
      BY <2>1 DEF JoinGood, IsPut, Asking, AskerGood
    <3>3. ASSUME NEW m \in T.asked[j.client].on PROVE Covered(T, G, i, m)
      <4>1. m \in Member /\ m \in S.asked[j.client].on
        BY <1>2, <3>2 DEF Forgets, AskSet
      <4>2. Covered(S, H, i, m)
        BY <3>1, <4>1
      <4>3. CASE \E a \in Waits(S, i) : a.to = m
        BY <2>2, <4>3 DEF Covered
      <4>4. CASE <<j.name, m>> \in H
        <5>1. <<j.name, m>> \in G \/ m \in T.asked[j.client].lost
          BY <3>2, <4>1, <4>4 DEF Forgets
        <5>2. QED
          BY <2>1, <5>1 DEF Covered
      <4>5. CASE m \in S.asked[j.client].lost
        <5>1. m \in T.asked[j.client].lost
          BY <3>2, <4>1, <4>5 DEF Forgets
        <5>2. QED
          BY <2>1, <5>1 DEF Covered
      <4>6. QED
        BY <3>0, <4>2, <4>3, <4>4, <4>5 DEF Covered
    <3>4. QED
      BY <2>2, <3>1, <3>3
  <2>9. QED
    BY <2>1, <2>7, <2>8
<1>4. AwaitGood(T) /\ OneJoin(T)
  BY DEF Base, AwaitGood, OneJoin
<1>5. \A k \in DOMAIN T.out : OutGood(T.out[k], G)
  <2>1. DOMAIN T.out = {}
    <3>1. T.out \in Seq(OutSet) /\ Len(T.out) = 0
      BY EmptySeq
    <3>2. QED
      BY <3>1, LenProperties
  <2>2. QED
    BY <2>1
<1>6. QED
  BY <1>3, <1>4, <1>5 DEF Base, Puts

\* A client asks.
WithAsk(S, c, req) == [S EXCEPT !.asked[c] = req]

\* The request of an idle client, which has no join.
LEMMA AskGood ==
    ASSUME NEW S, NEW H, Base(S, H), Puts(S, H, 0), NEW c \in Client, S.asked[c] = Idle,
           NEW req \in AskSet, NEW T, T = WithAsk(S, c, req)
    PROVE  /\ Base(T, H) /\ Puts(T, H, 0) /\ Asks(T, c, req.op, req.name)
           /\ T.asked[c] = req /\ T.fleet = S.fleet
<1>1. S \in RouterSet
  BY DEF Base
<1>2. S.asked \in [Client -> AskSet] /\ S.joins \in [1..Joins -> JoinSet]
  BY <1>1, RouterParts
<1> DEFINE A0 == [S.asked EXCEPT ![c] = req]
<1>3. A0 \in [Client -> AskSet] /\ A0[c] = req /\ \A d \in Client : d # c => A0[d] = S.asked[d]
  BY <1>2
<1>4. T = [S EXCEPT !.asked = A0]
  BY <1>1, <1>2 DEF RouterSet, WithAsk
<1> HIDE DEF A0
<1>5. /\ T \in RouterSet /\ T.asked = A0 /\ T.joins = S.joins /\ T.await = S.await /\ T.q = S.q
      /\ T.out = S.out /\ T.fleet = S.fleet
  BY <1>1, <1>3, <1>4 DEF RouterSet
<1>6. \A i \in 1..Joins : Waits(T, i) = Waits(S, i)
  BY <1>5, WaitsSame
<1>7. ASSUME NEW i \in 1..Joins, S.joins[i].kind \in Asking
      PROVE  S.joins[i].client # c /\ S.joins[i].client \in Client
  <2>1. JoinGood(S, H, i, S.joins[i])
    BY DEF Base
  <2>2. AskerGood(S, S.joins[i]) /\ S.joins[i].op \in PlainOp
    BY <1>7, <2>1 DEF JoinGood, Asking
  <2>3. QED
    BY <2>2 DEF AskerGood, Idle, PlainOp, PutOp, ReadOp, None
<1>8. \A i \in 1..Joins : S.joins[i].kind \in Asking
                          => T.asked[S.joins[i].client] = S.asked[S.joins[i].client]
  BY <1>3, <1>5, <1>7
<1>9. ASSUME NEW i \in 1..Joins PROVE JoinGood(T, H, i, T.joins[i])
  <2>1. JoinGood(S, H, i, S.joins[i])
    BY DEF Base
  <2>2. JoinGood(T, H, i, S.joins[i])
    BY <1>5, <1>6, <1>8, <2>1, JoinSame
  <2>3. QED
    BY <1>5, <2>2
<1>10. ASSUME NEW i \in 1..Joins PROVE PutGood(T, H, i)
  <2>1. PutGood(S, H, i)
    BY SizesAssumption DEF Puts
  <2>2. IsPut(S.joins[i]) => T.asked[S.joins[i].client] = S.asked[S.joins[i].client]
    BY <1>8 DEF IsPut, Asking
  <2>3. Waits(T, i) = Waits(S, i) /\ T.joins[i] = S.joins[i]
    BY <1>5, <1>6
  <2>4. QED
    BY <2>1, <2>2, <2>3 DEF PutGood, Covered
<1>11. AwaitGood(T) /\ OneJoin(T) /\ \A k \in DOMAIN T.out : OutGood(T.out[k], H)
  BY <1>5 DEF Base, AwaitGood, OneJoin
<1>12. Asks(T, c, req.op, req.name)
  BY <1>3, <1>5, <1>7 DEF Asks
<1>13. QED
  BY <1>3, <1>5, <1>9, <1>10, <1>11, <1>12 DEF Base, Puts

\* Every kind of request is handled.
LEMMA HandleGood ==
    ASSUME NEW S, NEW H, Base(S, H), Puts(S, H, 0), NEW c \in Client, NEW op \in PlainOp, NEW name,
           IF op = "scan" THEN name = None ELSE name \in Name, Asks(S, c, op, name),
           op \in PutOp =>
               S.asked[c].on = Range(RankTargets(S, IF op = "put" THEN PutRank[name] ELSE Rank[name])),
           op # "scan" => (S.asked[c].sure =>
               /\ RankTargets(S, Rank[name]) # <<>>
               /\ \A m \in Range(RankTargets(S, Rank[name])) : <<name, m>> \in H),
           NEW T, T = Handle(S, c, op, name)
    PROVE  Base(T, H) /\ Puts(T, H, 0)
<1>1. CASE op \in PutOp
  <2>1. T = HandlePut(S, c, op, name) /\ name \in Name
    BY <1>1 DEF Handle, PutOp
  <2>2. QED
    BY <1>1, <2>1, HandlePutGood
<1>2. CASE op \in ReadOp
  <2>1. T = HandleRead(S, c, op, name) /\ name \in Name /\ op # "scan"
    BY <1>2 DEF Handle, ReadOp
  <2>2. QED
    BY <1>2, <2>1, HandleReadGood
<1>3. CASE op = "delete"
  <2>1. T = HandleDelete(S, c, name) /\ name \in Name /\ Asks(S, c, "delete", name)
    BY <1>3 DEF Handle
  <2>2. RankTargets(S, Rank[name]) = <<>> => ~S.asked[c].sure
    BY <1>3
  <2>3. QED
    BY <2>1, <2>2, HandleDeleteGood
<1>4. CASE op = "scan"
  <2>1. T = HandleAdminScan(S, c) /\ Asks(S, c, "scan", None)
    BY <1>4 DEF Handle
  <2>2. QED
    BY <2>1, HandleAdminScanGood
<1>5. QED
  BY <1>1, <1>2, <1>3, <1>4 DEF PlainOp

\* The end of a step: its answers are told to the history, with what is gone.
LEMMA StepGood ==
    ASSUME NEW S, NEW H, NEW G, NEW gone, Base(S, H), Puts(S, H, 0), H \ gone \subseteq G,
           acked \subseteq H, wrong = {}, Step(S, gone)
    PROVE  Base(rt', G) /\ Puts(rt', G, 0) /\ rt'.out = <<>> /\ acked' \subseteq G /\ wrong' = {}
<1> DEFINE Lost(n) == {m \in Member : <<n, m>> \in gone}
           A0 == [c \in Client |-> [S.asked[c] EXCEPT !.lost = @ \cup Lost(S.asked[c].name),
                                                     !.sure = @ /\ Lost(S.asked[c].name) = {}]]
           Acks(e) == IF e.ans = Ok /\ e.req.op \in {"put", "put_keyed", "wcommit"}
                      THEN {e.req.name} \X (e.req.on \ e.req.lost) ELSE {}
           Wrong(e) == IF e.req.op = None THEN {"twice"}
                       ELSE IF e.ans = "not_found" /\ e.req.sure THEN {"denied"} ELSE {}
           Told(c, op, answers) == \E k \in DOMAIN S.out : /\ S.out[k].client = c
                                                          /\ S.out[k].req.op = op
                                                          /\ S.out[k].ans \in answers
           Ended(c) == \/ \E op \in {"wcommit", "wabort"} : Told(c, op, {Ok} \cup Errno)
                       \/ Told(c, "wappend", Errno)
           M0 == [c \in Client |-> IF Ended(c) THEN 0 ELSE S.mine[c]]
           N0 == [c \in Client |-> /\ ~Ended(c)
                                  /\ (S.sent[c] \/ Told(c, "wappend", {Ok}))]
<1>1. S \in RouterSet
  BY DEF Base
<1>2. /\ S.asked \in [Client -> AskSet] /\ S.mine \in [Client -> {0}] /\ S.sent \in [Client -> BOOLEAN]
      /\ S.out \in Seq(OutSet)
  BY <1>1, RouterParts
<1>3. /\ rt' = [[S EXCEPT !.asked = A0] EXCEPT !.out = <<>>, !.mine = M0, !.sent = N0]
      /\ acked' = (acked \cup UNION {Acks(S.out[k]) : k \in DOMAIN S.out}) \ gone
      /\ wrong' = wrong \cup UNION {Wrong(S.out[k]) : k \in DOMAIN S.out}
  BY DEF Step, Gone
<1>4. A0 \in [Client -> AskSet] /\ Forgets(S, [asked |-> A0], gone)
  <2>1. ASSUME NEW c \in Client
        PROVE  /\ A0[c] \in AskSet /\ A0[c].op = S.asked[c].op /\ A0[c].name = S.asked[c].name
               /\ A0[c].on = S.asked[c].on /\ A0[c].lost = S.asked[c].lost \cup Lost(S.asked[c].name)
               /\ A0[c].sure = (S.asked[c].sure /\ Lost(S.asked[c].name) = {})
    <3>1. S.asked[c] \in AskSet
      BY <1>2
    <3>2. A0[c] = [S.asked[c] EXCEPT !.lost = S.asked[c].lost \cup Lost(S.asked[c].name),
                                     !.sure = (S.asked[c].sure /\ Lost(S.asked[c].name) = {})]
      BY <3>1 DEF AskSet
    <3> HIDE DEF A0
    <3>3. Lost(S.asked[c].name) \subseteq Member
      OBVIOUS
    <3> HIDE DEF Lost
    <3>4. QED
      BY <3>1, <3>2, <3>3 DEF AskSet
  <2>2. A0 \in [Client -> AskSet]
    BY <2>1
  <2> HIDE DEF A0
  <2>3. QED
    BY <2>1, <2>2 DEF Forgets
<1>5. M0 \in [Client -> {0}] /\ N0 \in [Client -> BOOLEAN]
  BY <1>2
<1>6. \A k \in DOMAIN S.out : S.out[k] \in OutSet /\ OutGood(S.out[k], H)
  BY <1>2, ElementOfSeq, LenProperties DEF Base
<1>7. \A k \in DOMAIN S.out : Acks(S.out[k]) \subseteq H /\ Wrong(S.out[k]) = {}
  <2> TAKE k \in DOMAIN S.out
  <2> DEFINE e == S.out[k]
  <2>1. e \in OutSet /\ OutGood(e, H)
    BY <1>6
  <2> HIDE DEF e
  <2>2. e.req.op # "wcommit"
    BY <2>1 DEF OutSet, AskSet, PlainOp, PutOp, ReadOp, None
  <2>3. Wrong(e) = {}
    BY <2>1 DEF OutGood
  <2>4. Acks(e) \subseteq H
    <3>1. CASE e.ans = Ok /\ e.req.op \in PutOp
      BY <2>1, <3>1 DEF OutGood, PutOp
    <3>2. CASE ~(e.ans = Ok /\ e.req.op \in PutOp)
      BY <2>2, <3>2 DEF PutOp
    <3>3. QED
      BY <3>1, <3>2
  <2>5. QED
    BY <2>3, <2>4 DEF e
<1> HIDE DEF A0, M0, N0, Acks, Wrong
<1>8. acked' \subseteq G /\ wrong' = {}
  BY <1>3, <1>7
<1>9. /\ rt' \in RouterSet /\ rt'.asked = A0 /\ rt'.joins = S.joins /\ rt'.await = S.await
      /\ rt'.q = S.q /\ rt'.out = <<>>
  <2>1. <<>> \in Seq(OutSet)
    BY EmptySeq
  <2>2. QED
    BY <1>1, <1>3, <1>4, <1>5, <2>1 DEF RouterSet
<1>10. Forgets(S, rt', gone)
  BY <1>4, <1>9 DEF Forgets
<1>11. Base(rt', G) /\ Puts(rt', G, 0)
  <2> DEFINE T == rt'
  <2>1. /\ T \in RouterSet /\ T.joins = S.joins /\ T.await = S.await
        /\ T.q = S.q /\ T.out = <<>> /\ Forgets(S, T, gone)
    BY <1>9, <1>10
  <2> HIDE DEF T
  <2>2. Base(T, G) /\ Puts(T, G, 0)
    BY <2>1, ForgetGood
  <2>3. QED
    BY <2>2 DEF T
<1>12. QED
  BY <1>8, <1>9, <1>11

\* An inventory is a sequence of names.
LEMMA InventoryOf ==
    ASSUME NEW X, NEW st, st \subseteq X, IsFiniteSet(st)
    PROVE  SetToSeq(st) \in Seq(X)
<1> DEFINE n == Cardinality(st)
<1>1. n \in Nat /\ ExistsBijection(1..n, st)
  BY FS_CardinalityType
<1>2. \E f \in [1..n -> st] : IsInjective(f)
  BY <1>1 DEF ExistsBijection, Bijection, Injection, Surjection, IsInjective
<1>3. SetToSeq(st) \in [1..n -> st]
  BY <1>2 DEF SetToSeq
<1> HIDE DEF n
<1>4. SetToSeq(st) \in [1..n -> X]
  BY <1>3
<1>5. QED
  BY <1>1, <1>4, SeqDef

\* What the members hold once one has served a request.
Serving(m, r) == [stored EXCEPT ![m] = MemberStores(m, r)]


\* What comes of serving it: what is held and gone, and an answer that is true.
Served(m, r, st, gone, resp) ==
    /\ st \in [Member -> SUBSET Name] /\ \A n \in Member : IsFiniteSet(st[n])
    /\ RespGood(resp) /\ Pairs(stored) \subseteq Pairs(st) \cup gone
    /\ r.op \in PutOp => <<r.name, m>> \in Pairs(st)
    /\ r.op \in ReadOp /\ resp.errno = "not_found" => <<r.name, m>> \notin Pairs(st) \cup gone
    /\ r.op \notin ReadOp => resp.errno # "not_found"

\* What a member answers is so, of what it holds when it has served.
LEMMA ServedGood ==
    ASSUME NEW m \in Member, NEW r \in ReqSet, Stores,
           NEW st, st = Serving(m, r),
           NEW gone, gone = IF r.op = "delete" THEN {<<r.name, m>>} ELSE {},
           NEW resp, resp = MemberAnswer(m, r)
    PROVE  Served(m, r, st, gone, resp)
<1> USE DEF Served
<1> DEFINE now == MemberStores(m, r)
<1>1. /\ stored \in [Member -> SUBSET Name] /\ \A n \in Member : IsFiniteSet(stored[n])
      /\ r.op \in PlainOp /\ (r.op # "scan" => r.name \in Name)
  BY DEF Stores, ReqSet
<1>2. CASE r.op \in PutOp
  <2>1. now = stored[m] \cup {r.name} /\ resp = Good /\ r.name \in Name /\ gone = {} /\ r.op \notin ReadOp
    BY <1>1, <1>2 DEF MemberStores, MemberAnswer, PutOp, ReadOp
  <2>2. IsFiniteSet(now)
    BY <1>1, <2>1, FS_AddElement
  <2> HIDE DEF now
  <2>3. st = [stored EXCEPT ![m] = now]
    BY DEF now, Serving
  <2>4. st \in [Member -> SUBSET Name] /\ st[m] = now /\ \A n \in Member : n # m => st[n] = stored[n]
    BY <1>1, <2>1, <2>3
  <2>5. RespGood(resp) /\ resp.errno # "not_found"
    BY <2>1, EmptySeq DEF RespGood, Good, None
  <2>6. Pairs(stored) \subseteq Pairs(st) /\ <<r.name, m>> \in Pairs(st)
    BY <2>1, <2>4 DEF Pairs
  <2>7. \A n \in Member : IsFiniteSet(st[n])
    BY <1>1, <2>2, <2>4
  <2>8. QED
    BY <2>1, <2>4, <2>5, <2>6, <2>7
<1>3. CASE r.op = "delete"
  <2>1. now = stored[m] \ {r.name} /\ resp = Good /\ gone = {<<r.name, m>>}
    BY <1>1, <1>3 DEF MemberStores, MemberAnswer
  <2>2. IsFiniteSet(now)
    BY <1>1, <2>1, FS_Subset
  <2> HIDE DEF now
  <2>3. st = [stored EXCEPT ![m] = now]
    BY DEF now, Serving
  <2>4. st \in [Member -> SUBSET Name] /\ st[m] = now /\ \A n \in Member : n # m => st[n] = stored[n]
    BY <1>1, <2>1, <2>3
  <2>5. RespGood(resp) /\ resp.errno # "not_found"
    BY <2>1, EmptySeq DEF RespGood, Good, None
  <2>6. Pairs(stored) \subseteq Pairs(st) \cup gone
    BY <2>1, <2>4 DEF Pairs
  <2>7. \A n \in Member : IsFiniteSet(st[n])
    BY <1>1, <2>2, <2>4
  <2>8. r.op \notin PutOp /\ r.op \notin ReadOp
    BY <1>3 DEF PutOp, ReadOp
  <2>9. QED
    BY <2>4, <2>5, <2>6, <2>7, <2>8
<1>4. CASE r.op \in ReadOp \cup {"scan"}
  <2>1. st = stored /\ gone = {} /\ r.op \notin PutOp
    BY <1>1, <1>4 DEF MemberStores, Serving, ReadOp, PutOp
  <2>2. CASE r.op \in ReadOp
    <3>1. resp = IF r.name \in stored[m] THEN Good ELSE Bad("not_found")
      BY <2>2 DEF MemberAnswer, ReadOp
    <3>2. RespGood(resp)
      BY <3>1, EmptySeq DEF RespGood, Good, Bad, Errno, None
    <3>3. resp.errno = "not_found" => <<r.name, m>> \notin Pairs(stored)
      BY <3>1 DEF Good, Pairs, None
    <3>4. QED
      BY <1>1, <2>1, <2>2, <3>2, <3>3
  <2>3. CASE r.op = "scan"
    <3>1. resp = [Good EXCEPT !.names = SetToSeq(stored[m])]
      BY <2>3 DEF MemberAnswer
    <3>2. SetToSeq(stored[m]) \in Seq(Name)
      BY <1>1, InventoryOf
    <3>3. RespGood(resp) /\ resp.errno # "not_found"
      BY <3>1, <3>2 DEF RespGood, Good, None
    <3>4. r.op \notin ReadOp
      BY <2>3 DEF ReadOp
    <3>5. QED
      BY <1>1, <2>1, <3>3, <3>4
  <2>4. QED
    BY <1>4, <2>2, <2>3
<1>5. QED
  BY <1>1, <1>2, <1>3, <1>4 DEF PlainOp

\* A refusal is true whatever is held.
LEMMA RefusalTrue ==
    ASSUME NEW j, NEW H, NEW m
    PROVE  RespGood(Bad("io")) /\ Truth(j, H, m, Bad("io"))
<1>1. RespGood(Bad("io"))
  BY EmptySeq DEF RespGood, Bad, Errno
<1>2. QED
  BY <1>1 DEF Truth, Bad

\* A member serves one request, and answers, or is not heard, or refuses.
LEMMA ServeGood ==
    ASSUME Held, Stores, NEW m \in Member, NEW delivered \in BOOLEAN, NEW refused \in BOOLEAN,
           Serve(m, delivered, refused)
    PROVE  Held' /\ Stores'
<1> DEFINE h == Head(rt.q[m])
           r == h.req
           resp == IF refused THEN Bad("io") ELSE MemberAnswer(m, r)
           mine == {a \in rt.await : a.cid = h.cid /\ a.to = m}
           S == [rt EXCEPT !.q[m] = Tail(@)]
           R == [S EXCEPT !.quiet = @ \ {m}, !.await = @ \ mine]
           gone == IF r.op = "delete" /\ ~refused THEN {<<r.name, m>>} ELSE {}
           U == IF ~delivered \/ m \in rt.broken THEN S
                ELSE IF mine = {} THEN R
                ELSE AnswerJoin(R, CHOOSE a \in mine : TRUE, resp)
           H == Pairs(stored)
           G == Pairs(stored')
           H2 == G \cup gone
<1>1. /\ rt.q[m] # <<>>
      /\ stored' = IF refused THEN stored ELSE [stored EXCEPT ![m] = MemberStores(m, r)]
      /\ Step(U, gone)
  BY DEF Serve
<1>2. Base(rt, H) /\ Puts(rt, H, 0) /\ acked \subseteq H /\ wrong = {} /\ rt \in RouterSet
  BY DEF Held, Base
<1>3. rt.q \in [Member -> Seq(LetterSet)] /\ rt.await \subseteq AwaitSet
  BY <1>2, RouterParts
<1>4. /\ rt.q[m] \in Seq(LetterSet) /\ h \in LetterSet /\ h = rt.q[m][1] /\ 1 \in DOMAIN rt.q[m]
      /\ Tail(rt.q[m]) \in Seq(LetterSet)
      /\ \A k \in DOMAIN Tail(rt.q[m]) : \E l \in DOMAIN rt.q[m] : Tail(rt.q[m])[k] = rt.q[m][l]
  <2> DEFINE s == rt.q[m]
  <2>1. s \in Seq(LetterSet) /\ s # <<>> /\ h = Head(s)
    BY <1>1, <1>3
  <2> HIDE DEF s
  <2>2. /\ Head(s) \in LetterSet /\ Head(s) = s[1] /\ Len(s) \in Nat /\ Len(s) # 0
        /\ DOMAIN s = 1..Len(s)
        /\ Tail(s) \in Seq(LetterSet) /\ Len(Tail(s)) = Len(s) - 1
        /\ \A k \in 1..Len(Tail(s)) : Tail(s)[k] = s[k + 1]
    BY <2>1, HeadTailProperties, LenProperties, EmptySeq
  <2>3. DOMAIN Tail(s) = 1..Len(Tail(s))
    BY <2>2, LenProperties
  <2>4. \A k \in DOMAIN Tail(s) : k + 1 \in DOMAIN s /\ Tail(s)[k] = s[k + 1]
    BY <2>2, <2>3
  <2>5. 1 \in DOMAIN s
    BY <2>2
  <2>6. QED
    BY <2>1, <2>2, <2>4, <2>5 DEF s
<1>5. r \in ReqSet
  BY <1>4 DEF LetterSet
<1>6. /\ Stores' /\ RespGood(resp) /\ H \subseteq H2 /\ H2 \ gone \subseteq G
      /\ r.op \in PutOp /\ resp.ok => <<r.name, m>> \in H2
      /\ r.op \in ReadOp /\ resp.errno = "not_found" => <<r.name, m>> \notin H2
      /\ r.op \notin ReadOp => resp.errno # "not_found"
  <2>1. CASE refused
    <3>1. stored' = stored /\ gone = {} /\ resp = Bad("io")
      BY <1>1, <2>1
    <3>2. RespGood(resp) /\ ~resp.ok /\ resp.errno # "not_found"
      BY <3>1, RefusalTrue DEF Bad
    <3>3. QED
      BY <3>1, <3>2 DEF Stores
  <2>2. CASE ~refused
    <3> DEFINE st == stored'
    <3>1. /\ st = Serving(m, r) /\ resp = MemberAnswer(m, r)
          /\ gone = IF r.op = "delete" THEN {<<r.name, m>>} ELSE {}
      BY <1>1, <2>2 DEF Serving
    <3> HIDE DEF st, resp, gone
    <3>2. Served(m, r, st, gone, resp)
      <4> HIDE DEF r
      <4>1. QED
        BY <1>5, <3>1, ServedGood
    <3>3. QED
      BY <3>2 DEF st, Stores, Served
  <2>3. QED
    BY <2>1, <2>2
<1>7. Base(rt, H2) /\ Puts(rt, H2, 0)
  <2> HIDE DEF H, H2
  <2>1. QED
    BY <1>2, <1>6, MoreHeld
<1>8. /\ Fewer(rt, S) /\ S.await = rt.await /\ S.quiet = rt.quiet
  <2> DEFINE Q0 == [rt.q EXCEPT ![m] = Tail(rt.q[m])]
  <2>1. Q0 \in [Member -> Seq(LetterSet)] /\ Q0[m] = Tail(rt.q[m]) /\ \A n \in Member : n # m => Q0[n] = rt.q[n]
    BY <1>3, <1>4
  <2>2. S = [rt EXCEPT !.q = Q0]
    BY <1>2 DEF RouterSet
  <2> HIDE DEF Q0, S
  <2>3. /\ S \in RouterSet /\ S.q = Q0 /\ S.joins = rt.joins /\ S.asked = rt.asked /\ S.out = rt.out
        /\ S.await = rt.await /\ S.quiet = rt.quiet
    BY <1>2, <2>1, <2>2 DEF RouterSet
  <2>4. \A n \in Member : \A k \in DOMAIN S.q[n] : \E l \in DOMAIN rt.q[n] : S.q[n][k] = rt.q[n][l]
    <3> TAKE n \in Member
    <3>1. CASE n = m
      <4>1. S.q[n] = Tail(rt.q[m])
        BY <2>1, <2>3, <3>1
      <4>2. QED
        BY <1>4, <3>1, <4>1
    <3>2. CASE n # m
      BY <2>1, <2>3, <3>2
    <3>3. QED
      BY <3>1, <3>2
  <2>5. QED
    BY <2>3, <2>4 DEF Fewer
<1>9. Fewer(rt, R) /\ R.await = rt.await \ mine
  <2> DEFINE Q0 == rt.quiet \ {m}
             W0 == rt.await \ mine
  <2>1. S \in RouterSet
    BY <1>8 DEF Fewer
  <2>2. R = [S EXCEPT !.quiet = Q0, !.await = W0]
    BY <1>8
  <2>3. Q0 \subseteq Member /\ W0 \subseteq AwaitSet /\ W0 \subseteq rt.await
    BY <1>2, <1>3, RouterParts
  <2> HIDE DEF Q0, W0, S, R
  <2>4. /\ R \in RouterSet /\ R.q = S.q /\ R.joins = S.joins /\ R.asked = S.asked /\ R.out = S.out
        /\ R.await = W0
    BY <2>1, <2>2, <2>3 DEF RouterSet
  <2>5. QED
    BY <1>8, <2>3, <2>4 DEF Fewer, W0
<1>10. Base(U, H2) /\ Puts(U, H2, 0)
  <2>1. CASE U = S
    <3> HIDE DEF S, H2
    <3>1. Base(S, H2) /\ Puts(S, H2, 0)
      BY <1>7, <1>8, KeepGood
    <3>2. QED
      BY <2>1, <3>1
  <2>2. CASE U = R /\ mine = {}
    <3>1. R.await = rt.await
      BY <1>9, <2>2
    <3> HIDE DEF R, H2
    <3>2. Base(R, H2) /\ Puts(R, H2, 0)
      BY <1>7, <1>9, <3>1, KeepGood
    <3>3. QED
      BY <2>2, <3>2
  <2>3. CASE mine # {} /\ U = AnswerJoin(R, CHOOSE a \in mine : TRUE, resp)
    <3> DEFINE a == CHOOSE x \in mine : TRUE
    <3>1. a \in mine /\ U = AnswerJoin(R, a, resp)
      BY <2>3
    <3> HIDE DEF a
    <3>2. a \in rt.await /\ a.cid = h.cid /\ a.to = m
      BY <3>1
    <3>3. \A b \in mine : b = a
      BY <1>2, <3>2 DEF Base, AwaitGood
    <3>4. R.await = rt.await \ {a}
      BY <1>9, <3>1, <3>3
    <3>5. ASSUME rt.joins[a.join].kind # "free", a.gen = 1
          PROVE  Truth(rt.joins[a.join], H2, a.to, resp)
      <4> DEFINE i == a.join
                 j == rt.joins[i]
      <4>1. i \in 1..Joins
        BY <1>3, <3>2 DEF AwaitSet
      <4>2. JoinGood(rt, H, i, j) /\ a \in Waits(rt, i)
        BY <1>2, <3>2, <3>5, <4>1 DEF Base, Waits
      <4>3. r.op = j.op /\ r.name = j.name
        BY <1>4, <3>2, <3>5, <4>2 DEF JoinGood, LettersGood
      <4>4. j.kind \in Asking /\ ~IsRead(j) => j.op \notin ReadOp
        BY <4>2 DEF JoinGood, Asking, IsRead, ReadOp
      <4> HIDE DEF H2, j, r, resp
      <4>5. QED
        BY <1>6, <3>2, <4>3, <4>4 DEF Truth, IsPut, IsRead, j
    <3> HIDE DEF R, U, H2, resp
    <3>6. QED
      BY <1>6, <1>7, <1>9, <3>1, <3>2, <3>4, <3>5, AnswerGood
  <2>4. QED
    BY <2>1, <2>2, <2>3
<1>11. acked \subseteq H2
  BY <1>2, <1>6
<1> HIDE DEF U, H2, G, gone
<1>12. Base(rt', G) /\ Puts(rt', G, 0) /\ rt'.out = <<>> /\ acked' \subseteq G /\ wrong' = {}
  BY <1>1, <1>2, <1>6, <1>10, <1>11, StepGood
<1>13. QED
  BY <1>6, <1>12 DEF Held, G

\* A deadline passes: the answer is taken for a refusal.
LEMMA ExpireGood ==
    ASSUME Held, NEW a \in rt.await, Expire(a)
    PROVE  Held'
<1> DEFINE R == [rt EXCEPT !.await = @ \ {a}, !.quiet = @ \cup {a.to}]
           resp == Bad("io")
           U == AnswerJoin(R, a, resp)
           H == Pairs(stored)
<1>1. stored' = stored /\ Step(U, {})
  BY DEF Expire
<1>2. Base(rt, H) /\ Puts(rt, H, 0) /\ acked \subseteq H /\ wrong = {} /\ rt \in RouterSet
  BY DEF Held, Base
<1>3. rt.await \subseteq AwaitSet /\ rt.quiet \subseteq Member
  BY <1>2, RouterParts
<1>4. Fewer(rt, R) /\ R.await = rt.await \ {a}
  <2> DEFINE Q0 == rt.quiet \cup {a.to}
             W0 == rt.await \ {a}
  <2>1. R = [rt EXCEPT !.quiet = Q0, !.await = W0]
    OBVIOUS
  <2>2. Q0 \subseteq Member /\ W0 \subseteq AwaitSet /\ W0 \subseteq rt.await
    BY <1>3 DEF AwaitSet
  <2> HIDE DEF Q0, W0, R
  <2>3. /\ R \in RouterSet /\ R.q = rt.q /\ R.joins = rt.joins /\ R.asked = rt.asked
        /\ R.out = rt.out /\ R.await = W0
    BY <1>2, <2>1, <2>2 DEF RouterSet
  <2>4. QED
    BY <2>2, <2>3 DEF Fewer, W0
<1>5. RespGood(resp) /\ Truth(rt.joins[a.join], H, a.to, resp)
  BY RefusalTrue
<1>6. Base(U, H) /\ Puts(U, H, 0)
  <2>1. U = AnswerJoin(R, a, resp)
    OBVIOUS
  <2> HIDE DEF R, U, H, resp
  <2>2. QED
    BY <1>2, <1>4, <1>5, <2>1, AnswerGood
<1>7. H \ {} \subseteq H
  OBVIOUS
<1> HIDE DEF U, H
<1>8. Base(rt', H) /\ Puts(rt', H, 0) /\ rt'.out = <<>> /\ acked' \subseteq H /\ wrong' = {}
  BY <1>1, <1>2, <1>6, <1>7, StepGood
<1>9. QED
  BY <1>1, <1>8 DEF Held, H

\* A client asks and is answered, or has a join.
LEMMA RequestGood ==
    ASSUME Held, NEW c \in Client, NEW op \in Op, NEW name \in Name \cup {None},
           "wopen" \notin budget.ops, Request(c, op, name)
    PROVE  Held'
<1> DEFINE H == Pairs(stored)
           targets == RankTargets(rt, Rank[name])
           on == IF op \in {"wappend", "wcommit", "wabort"} THEN Range(rt.streams[rt.mine[c]].targets)
                 ELSE IF op = "scan" THEN {0}
                 ELSE Range(RankTargets(rt, IF op = "put" THEN PutRank[name] ELSE Rank[name]))
           asks == IF op = "scan" THEN {} ELSE Range(RankTargets(rt, Rank[name]))
           req == [op |-> op, name |-> name, on |-> on, lost |-> {},
                   sure |-> asks # {} /\ \A m \in asks : <<name, m>> \in acked]
           S == [rt EXCEPT !.asked[c] = req]
           U == Handle(S, c, op, name)
<1>1. /\ rt.asked[c] = Idle /\ op \in budget.ops /\ Sensible(c, op, name)
      /\ Step(U, {}) /\ stored' = stored
  BY DEF Request
<1>2. Base(rt, H) /\ Puts(rt, H, 0) /\ acked \subseteq H /\ wrong = {} /\ rt \in RouterSet
  BY DEF Held, Base
<1>3. rt.mine[c] = 0
  BY <1>2, RouterParts
<1>4. op \in PlainOp /\ (op = "scan" => name = None) /\ (op # "scan" => name \in Name)
  <2>1. op \notin {"wopen", "wappend", "wcommit", "wabort"}
    BY <1>1, <1>3 DEF Sensible
  <2>2. op \in PlainOp
    BY <2>1 DEF Op, PlainOp, PutOp, ReadOp
  <2>3. CASE op = "put"
    BY <1>1, <2>2, <2>3 DEF Sensible, Name
  <2>4. CASE op = "put_keyed"
    BY <1>1, <2>2, <2>4 DEF Sensible, Name
  <2>5. CASE op = "scan"
    BY <1>1, <2>2, <2>5 DEF Sensible
  <2>6. CASE op \notin {"put", "put_keyed", "scan"}
    BY <1>1, <2>1, <2>2, <2>6 DEF Sensible
  <2>7. QED
    BY <2>3, <2>4, <2>5, <2>6
<1>5. on \subseteq Member
  <2>1. CASE op = "scan"
    <3>1. on = {0} /\ 0 \in Member
      BY <2>1, SizesAssumption DEF Member
    <3>2. QED
      BY <3>1
  <2>2. CASE op # "scan"
    <3> DEFINE ranked == IF op = "put" THEN PutRank[name] ELSE Rank[name]
    <3>1. ranked \in Seq(Member)
      BY <1>4, <2>2, RankAssumption
    <3>2. on = Range(RankTargets(rt, ranked))
      BY <1>4, <2>2 DEF PlainOp, PutOp, ReadOp
    <3> HIDE DEF ranked, on
    <3>3. RankTargets(rt, ranked) \in Seq(Member)
      BY <3>1, TargetsOf
    <3>4. QED
      BY <3>2, <3>3, LenProperties, ElementOfSeq DEF Range
  <2>3. QED
    BY <2>1, <2>2
<1>6. /\ req \in AskSet /\ req.op = op /\ req.name = name /\ req.on = on
      /\ req.sure = (asks # {} /\ \A m \in asks : <<name, m>> \in acked)
  <2> HIDE DEF on, asks
  <2>1. QED
    BY <1>4, <1>5 DEF AskSet
<1>7. \A T : (T = rt \/ T.fleet = rt.fleet) => \A s : RankTargets(T, s) = RankTargets(rt, s)
  BY DEF RankTargets
<1>8. op \in PutOp => on = Range(RankTargets(rt, IF op = "put" THEN PutRank[name] ELSE Rank[name]))
  BY DEF PutOp
<1>9. ASSUME op # "scan", req.sure
      PROVE  targets # <<>> /\ \A m \in Range(targets) : <<name, m>> \in H
  <2>1. asks = Range(targets)
    BY <1>9
  <2>2. Range(targets) # {} /\ \A m \in Range(targets) : <<name, m>> \in acked
    BY <1>6, <1>9, <2>1
  <2>3. targets # <<>>
    <3>1. DOMAIN targets # {}
      BY <2>2 DEF Range
    <3> HIDE DEF targets
    <3>2. SUFFICES ASSUME targets = <<>> PROVE FALSE
      OBVIOUS
    <3>3. DOMAIN <<>> = {}
      OBVIOUS
    <3>4. QED
      BY <3>1, <3>2, <3>3
  <2>4. QED
    BY <1>2, <2>2, <2>3
<1>10. S = WithAsk(rt, c, req) /\ U = Handle(S, c, op, name)
  BY DEF WithAsk
<1> HIDE DEF req, on, S, U, H
<1>11. /\ Base(S, H) /\ Puts(S, H, 0) /\ Asks(S, c, op, name) /\ S.asked[c] = req
       /\ S.fleet = rt.fleet
  BY <1>1, <1>2, <1>6, <1>10, AskGood
<1>12. \A s : RankTargets(S, s) = RankTargets(rt, s)
  BY <1>7, <1>11
<1>13. /\ op \in PutOp =>
            S.asked[c].on = Range(RankTargets(S, IF op = "put" THEN PutRank[name] ELSE Rank[name]))
       /\ op # "scan" => (S.asked[c].sure =>
            /\ RankTargets(S, Rank[name]) # <<>>
            /\ \A m \in Range(RankTargets(S, Rank[name])) : <<name, m>> \in H)
  BY <1>6, <1>8, <1>9, <1>11, <1>12
<1>14. Base(U, H) /\ Puts(U, H, 0)
  BY <1>4, <1>10, <1>11, <1>13, HandleGood
<1>15. H \ {} \subseteq H
  OBVIOUS
<1>16. Base(rt', H) /\ Puts(rt', H, 0) /\ rt'.out = <<>> /\ acked' \subseteq H /\ wrong' = {}
  BY <1>1, <1>2, <1>14, <1>15, StepGood
<1>17. QED
  BY <1>1, <1>16 DEF Held, H

\* A scrub is begun.
LEMMA ScrubGood ==
    ASSUME Held, Scrub
    PROVE  Held'
<1> DEFINE H == Pairs(stored)
           U == ScrubKick(rt)
<1>1. stored' = stored /\ Step(U, {}) /\ U = ScrubKick(rt)
  BY DEF Scrub
<1>2. Base(rt, H) /\ Puts(rt, H, 0) /\ acked \subseteq H /\ wrong = {} /\ H \ {} \subseteq H
  BY DEF Held
<1> HIDE DEF U, H
<1>3. Base(U, H) /\ Puts(U, H, 0)
  BY <1>1, <1>2, KickGood
<1>4. Base(rt', H) /\ Puts(rt', H, 0) /\ rt'.out = <<>> /\ acked' \subseteq H /\ wrong' = {}
  BY <1>1, <1>2, <1>3, StepGood
<1>5. QED
  BY <1>1, <1>4 DEF Held, H

\* A member loses a body: the history no longer counts on it.
LEMMA WipeGood ==
    ASSUME Held, Stores, NEW m \in Member, NEW name \in Name, Wipe(m, name)
    PROVE  Held' /\ Stores'
<1> DEFINE H == Pairs(stored)
           G == Pairs(stored')
           gone == {<<name, m>>}
<1>1. stored' = [stored EXCEPT ![m] = stored[m] \ {name}] /\ Step(rt, gone)
  BY DEF Wipe
<1>2. /\ stored \in [Member -> SUBSET Name] /\ \A n \in Member : IsFiniteSet(stored[n])
      /\ IsFiniteSet(stored[m] \ {name})
  BY FS_Subset DEF Stores
<1>3. /\ stored' \in [Member -> SUBSET Name] /\ stored'[m] = stored[m] \ {name}
      /\ \A n \in Member : n # m => stored'[n] = stored[n]
  BY <1>1, <1>2
<1>4. Stores'
  BY <1>2, <1>3 DEF Stores
<1>5. H \ gone \subseteq G
  BY <1>3 DEF Pairs
<1>6. Base(rt, H) /\ Puts(rt, H, 0) /\ acked \subseteq H /\ wrong = {}
  BY DEF Held
<1> HIDE DEF H, G, gone
<1>7. Base(rt', G) /\ Puts(rt', G, 0) /\ rt'.out = <<>> /\ acked' \subseteq G /\ wrong' = {}
  BY <1>1, <1>5, <1>6, StepGood
<1>8. QED
  BY <1>4, <1>7 DEF Held, G

\* A channel sticks, flows again, stalls or breaks, or the fleet is published.
LEMMA ChannelGood ==
    ASSUME Held, rt' \in RouterSet, rt'.joins = rt.joins, Alike(rt, rt'),
           stored' = stored, acked' = acked, wrong' = wrong
    PROVE  Held'
<1> DEFINE H == Pairs(stored)
           T == rt'
<1>1. /\ Base(rt, H) /\ Puts(rt, H, 0) /\ acked \subseteq H /\ wrong = {} /\ rt.out = <<>>
      /\ T \in RouterSet /\ T.joins = rt.joins /\ Alike(rt, T)
  BY DEF Held
<1>2. rt'.out = <<>>
  BY <1>1 DEF Alike
<1> HIDE DEF H, T
<1>3. Base(T, H) /\ Puts(T, H, 0)
  BY <1>1, BaseAlike
<1>4. QED
  BY <1>1, <1>2, <1>3 DEF Held, H, T

\* The start is as it should be.
LEMMA InitGood ==
    ASSUME Streamless, Init
    PROVE  FanoutInv
<1>1. Stores
  BY FS_EmptySet DEF Init, Stores
<1>2. Pairs(stored) = {} /\ acked = {} /\ wrong = {}
  BY DEF Init, Pairs
<1>3. rt = NewRouter
  BY DEF Init
<1>4. <<>> \in Seq(Member) /\ <<>> \in Seq(LetterSet) /\ <<>> \in Seq(OutSet) /\ 0 \in Member
  BY EmptySeq, SizesAssumption DEF Member
<1>5. Idle \in AskSet
  BY DEF Idle, AskSet
<1>6. rt \in RouterSet
  <2>1. [i \in 1..Joins |-> FreeJoin] \in [1..Joins -> JoinSet]
    BY FreeJoinType
  <2>2. [c \in Client |-> Idle] \in [Client -> AskSet]
    BY <1>5
  <2> DEFINE J0 == [i \in 1..Joins |-> FreeJoin]
             C0 == [c \in Client |-> Idle]
  <2>3. rt = [joins |-> J0, await |-> {}, q |-> [m \in Member |-> <<>>], stuck |-> {},
              owed |-> {}, stalled |-> {}, quiet |-> {}, broken |-> {},
              streams |-> [s \in 1..Sids |-> FreeStream], fleet |-> Member,
              scrubAt |-> 0, scrubBusy |-> FALSE, asked |-> C0,
              mine |-> [c \in Client |-> 0], sent |-> [c \in Client |-> FALSE], out |-> <<>>]
    BY <1>3 DEF NewRouter
  <2>4. J0 \in [1..Joins -> JoinSet] /\ C0 \in [Client -> AskSet]
    BY <2>1, <2>2
  <2> HIDE DEF J0, C0
  <2>5. QED
    BY <1>4, <2>3, <2>4 DEF RouterSet
<1>7. /\ \A i \in 1..Joins : rt.joins[i] = FreeJoin /\ Waits(rt, i) = {}
      /\ rt.await = {} /\ rt.out = <<>>
  BY <1>3 DEF NewRouter, Waits
<1>8. FreeJoin.kind = "free" /\ FreeJoin.gen = 0 /\ FreeJoin.op = None
  BY DEF FreeJoin
<1>9. \A i \in 1..Joins : JoinGood(rt, Pairs(stored), i, rt.joins[i]) /\ PutGood(rt, Pairs(stored), i)
  BY <1>7, <1>8 DEF JoinGood, Asking, IsRead, IsPut, PutGood, None
<1>10. AwaitGood(rt) /\ OneJoin(rt)
  BY <1>7, <1>8, FS_EmptySet DEF AwaitGood, OneJoin, Asking
<1>11. \A k \in DOMAIN rt.out : OutGood(rt.out[k], Pairs(stored))
  BY <1>7
<1>12. Held
  BY <1>2, <1>6, <1>7, <1>9, <1>10, <1>11 DEF Held, Base, Puts
<1>13. place \in [fleet : SUBSET Member, emitted : BOOLEAN] /\ budget \in Config /\ "wopen" \notin budget.ops
  BY ConfigsAssumption DEF Init, Streamless
<1>14. QED
  BY <1>1, <1>12, <1>13 DEF FanoutInv

\* What a fault or a request costs.
LEMMA BudgetGood ==
    ASSUME budget \in Config, "wopen" \notin budget.ops,
           \/ UNCHANGED budget
           \/ \E kind \in FaultKind : Fault(kind)
           \/ budget.requests > 0 /\ budget' = [budget EXCEPT !.requests = @ - 1]
    PROVE  budget' \in Config /\ "wopen" \notin budget'.ops
BY DEF Fault, Config

\* Every step keeps the invariant.
LEMMA NextGood ==
    ASSUME FanoutInv, [Next]_vars
    PROVE  FanoutInv'
<1> USE DEF FanoutInv
<1>1. /\ Held /\ Stores /\ place \in [fleet : SUBSET Member, emitted : BOOLEAN]
      /\ budget \in Config /\ "wopen" \notin budget.ops /\ rt \in RouterSet
  BY DEF Held, Base
<1>2. ASSUME NEW c \in Client, NEW op \in Op, NEW n \in Name \cup {None}, Request(c, op, n)
      PROVE  FanoutInv'
  <2>1. Held'
    BY <1>1, <1>2, RequestGood
  <2>2. Stores' /\ place' = place
    BY <1>1, <1>2 DEF Request, Stores
  <2>3. budget' \in Config /\ "wopen" \notin budget'.ops
    <3>1. budget.requests > 0 /\ budget' = [budget EXCEPT !.requests = @ - 1]
      BY <1>2 DEF Request
    <3>2. QED
      BY <1>1, <3>1, BudgetGood
  <2>4. QED
    BY <1>1, <2>1, <2>2, <2>3
<1>3. ASSUME NEW m \in Member, Answer(m) \/ LoseAnswer(m) \/ Refuse(m)
      PROVE  FanoutInv'
  <2>1. PICK d \in BOOLEAN, r \in BOOLEAN : Serve(m, d, r)
    BY <1>3 DEF Answer, LoseAnswer, Refuse
  <2>2. Held' /\ Stores'
    BY <1>1, <2>1, ServeGood
  <2>3. place' = place
    BY <2>1 DEF Serve
  <2>4. UNCHANGED budget \/ \E kind \in FaultKind : Fault(kind)
    BY <1>3 DEF Answer, LoseAnswer, Refuse, FaultKind
  <2>5. budget' \in Config /\ "wopen" \notin budget'.ops
    BY <1>1, <2>4, BudgetGood
  <2>6. QED
    BY <1>1, <2>2, <2>3, <2>5
<1>4. ASSUME NEW a \in rt.await, Expire(a)
      PROVE  FanoutInv'
  <2>1. Held'
    BY <1>1, <1>4, ExpireGood
  <2>2. Stores' /\ place' = place
    BY <1>1, <1>4 DEF Expire, Stores
  <2>3. UNCHANGED budget \/ \E kind \in FaultKind : Fault(kind)
    BY <1>4 DEF Expire, FaultKind
  <2>4. budget' \in Config /\ "wopen" \notin budget'.ops
    BY <1>1, <2>3, BudgetGood
  <2>5. QED
    BY <1>1, <2>1, <2>2, <2>4
<1>5. ASSUME NEW m \in Member, Stick(m) \/ Unstick(m) \/ Stall(m) \/ Break(m)
      PROVE  FanoutInv'
  <2>1. /\ stored' = stored /\ acked' = acked /\ wrong' = wrong /\ place' = place
        /\ UNCHANGED budget \/ \E kind \in FaultKind : Fault(kind)
    BY <1>5 DEF Stick, Unstick, Stall, Break, FaultKind
  <2>2. /\ rt.stuck \subseteq Member /\ rt.owed \subseteq Member /\ rt.stalled \subseteq Member
        /\ rt.broken \subseteq Member
    BY <1>1, RouterParts
  <2>3. rt' \in RouterSet /\ rt'.joins = rt.joins /\ Alike(rt, rt')
    <3>1. CASE Stick(m)
      <4> DEFINE x == rt.stuck \cup {m}
      <4>1. rt' = [rt EXCEPT !.stuck = x] /\ x \subseteq Member
        BY <2>2, <3>1 DEF Stick
      <4> HIDE DEF x
      <4>2. QED
        BY <1>1, <4>1 DEF RouterSet, Alike
    <3>2. CASE Unstick(m)
      <4> DEFINE x == rt.stuck \ {m}
                 y == rt.owed \ {m}
                 z == rt.stalled \ {m}
      <4>1. /\ rt' = [rt EXCEPT !.stuck = x, !.owed = y, !.stalled = z]
            /\ x \subseteq Member /\ y \subseteq Member /\ z \subseteq Member
        BY <2>2, <3>2 DEF Unstick
      <4> HIDE DEF x, y, z
      <4>2. QED
        BY <1>1, <4>1 DEF RouterSet, Alike
    <3>3. CASE Stall(m)
      <4> DEFINE x == rt.stalled \cup {m}
      <4>1. rt' = [rt EXCEPT !.stalled = x] /\ x \subseteq Member
        BY <2>2, <3>3 DEF Stall
      <4> HIDE DEF x
      <4>2. QED
        BY <1>1, <4>1 DEF RouterSet, Alike
    <3>4. CASE Break(m)
      <4> DEFINE x == rt.broken \cup {m}
      <4>1. rt' = [rt EXCEPT !.broken = x] /\ x \subseteq Member
        BY <2>2, <3>4 DEF Break
      <4> HIDE DEF x
      <4>2. QED
        BY <1>1, <4>1 DEF RouterSet, Alike
    <3>5. QED
      BY <1>5, <3>1, <3>2, <3>3, <3>4
  <2>4. Held'
    BY <1>1, <2>1, <2>3, ChannelGood
  <2>5. Stores'
    BY <1>1, <2>1 DEF Stores
  <2>6. budget' \in Config /\ "wopen" \notin budget'.ops
    BY <1>1, <2>1, BudgetGood
  <2>7. QED
    BY <1>1, <2>1, <2>4, <2>5, <2>6
<1>6. ASSUME NEW m \in Member, NEW n \in Name, Wipe(m, n)
      PROVE  FanoutInv'
  <2>1. Held' /\ Stores'
    BY <1>1, <1>6, WipeGood
  <2>2. place' = place /\ \E kind \in FaultKind : Fault(kind)
    BY <1>6 DEF Wipe, FaultKind
  <2>3. budget' \in Config /\ "wopen" \notin budget'.ops
    BY <1>1, <2>2, BudgetGood
  <2>4. QED
    BY <1>1, <2>1, <2>2, <2>3
<1>7. CASE Scrub
  <2>1. Held'
    BY <1>1, <1>7, ScrubGood
  <2>2. Stores' /\ place' = place /\ budget' = budget
    BY <1>1, <1>7 DEF Scrub, Stores
  <2>3. QED
    BY <1>1, <2>1, <2>2
<1>8. ASSUME NEW f \in Fleets, FleetUpdate(f)
      PROVE  FanoutInv'
  <2>1. /\ place' = [fleet |-> f, emitted |-> FALSE] /\ \E kind \in FaultKind : Fault(kind)
        /\ rt' = rt /\ stored' = stored /\ acked' = acked /\ wrong' = wrong
    BY <1>8 DEF FleetUpdate, FaultKind
  <2>2. Held' /\ Stores'
    BY <1>1, <2>1 DEF Held, Stores
  <2>3. place' \in [fleet : SUBSET Member, emitted : BOOLEAN]
    BY <2>1, FleetsAssumption
  <2>4. budget' \in Config /\ "wopen" \notin budget'.ops
    BY <1>1, <2>1, BudgetGood
  <2>5. QED
    BY <2>2, <2>3, <2>4
<1>9. CASE FleetEpoch
  <2>1. /\ place' = [place EXCEPT !.emitted = TRUE] /\ rt' = [rt EXCEPT !.fleet = place.fleet]
        /\ stored' = stored /\ acked' = acked /\ wrong' = wrong /\ budget' = budget
    BY <1>9 DEF FleetEpoch
  <2>2. place' \in [fleet : SUBSET Member, emitted : BOOLEAN]
    BY <1>1, <2>1
  <2>3. rt' \in RouterSet /\ rt'.joins = rt.joins /\ Alike(rt, rt')
    <3> DEFINE x == place.fleet
    <3>1. rt' = [rt EXCEPT !.fleet = x] /\ x \subseteq Member
      BY <1>1, <2>1
    <3> HIDE DEF x
    <3>2. QED
      BY <1>1, <3>1 DEF RouterSet, Alike
  <2>4. Held'
    BY <1>1, <2>1, <2>3, ChannelGood
  <2>5. Stores'
    BY <1>1, <2>1 DEF Stores
  <2>6. QED
    BY <1>1, <2>1, <2>2, <2>4, <2>5
<1>10. CASE UNCHANGED vars
  BY <1>1, <1>10 DEF vars, Held, Stores
<1>11. QED
  BY <1>2, <1>3, <1>4, <1>5, <1>6, <1>7, <1>8, <1>9, <1>10 DEF Next

-----------------------------------------------------------------------------
(* Theorems                                                                 *)

\* The inductive invariant of a router without streams: joins wait for what
\* they asked for and nobody else's answer, and each write that may still be
\* acknowledged has an answer to come from every member it is for that does
\* not hold the body (answer_join, apply_put, advance_read).
THEOREM FanoutInvariant == ASSUME Streamless PROVE Spec => []FanoutInv
<1>1. Init => FanoutInv
  BY InitGood
<1>2. FanoutInv /\ [Next]_vars => FanoutInv'
  BY NextGood
<1>3. QED
  BY <1>1, <1>2, PTL DEF Spec

\* A body a client was told is stored is on every member the write was for
\* (apply_put), with any number of members, clients and slots, whatever answers
\* are late, lost, refused or for another write in the same slot, and whatever
\* the fleet becomes meanwhile.
THEOREM AckedStayReplicated == ASSUME Streamless PROVE Spec => []AckedReplicated
<1>1. FanoutInv => AckedReplicated
  BY DEF FanoutInv, Held, Pairs, AckedReplicated
<1>2. QED
  BY <1>1, FanoutInvariant, PTL

\* No request is answered twice, and a body that is surely on its whole replica
\* set is never answered NOT_FOUND (answer_join, advance_read).
THEOREM AnswersStayRight == ASSUME Streamless PROVE Spec => []AnswersRight
<1>1. FanoutInv => AnswersRight
  BY DEF FanoutInv, Held, AnswersRight
<1>2. QED
  BY <1>1, FanoutInvariant, PTL
=============================================================================
