--------------------------- MODULE MCAdminRouter ---------------------------
(* Small instances of AdminRouter: digest 3 is a leaf page, or a root of    *)
(* depth one, that lists 1; 4 is a root of depth two that lists 3.          *)
EXTENDS AdminRouter

MCChild == 1 :> {} @@ 2 :> {} @@ 3 :> {1} @@ 4 :> {3}
MCDeep == {4}

Empty == [k \in Key |-> Unbound]
File(d) == [Unbound EXCEPT !.rev = 1, !.obj = d]
Volume(d) == [File(d) EXCEPT !.vol = TRUE]
Held(d) == [File(d) EXCEPT !.held = TRUE]

Base == [asks |-> << <<>>, <<>> >>, bound |-> Empty, bodies |-> {}, descs |-> {}, pend |-> 8,
         queue |-> 8, answers |-> 8, sweeps |-> 0, faults |-> 0, lapses |-> FALSE, merges |-> 0]

\* Writers of one key race each other; a sweep finds the body of one.
Racing == [Base EXCEPT !.asks = << <<IfAbsent(AskPut(1, 1, FALSE))>>,
                                   <<AskPut(1, 2, TRUE), AskKey("delete_file", 1)>> >>,
                       !.bodies = {1}, !.sweeps = 1, !.faults = 1]
Volumes == [Base EXCEPT !.asks = << <<Ask("begin"), AskDigest("put_body", 3),
                                      AskDigest("put_body", 4), AskCommit(1, 4, 1)>>,
                                    <<AskBind(2, 1, 1)>> >>,
                        !.bodies = {1, 3}, !.sweeps = 2, !.lapses = TRUE]
Mapped == [Base EXCEPT !.asks = << <<AskKey("lease", 1)>>, <<AskKey("delete_file", 1)>> >>,
                       !.bound = [Empty EXCEPT ![1] = Volume(3), ![2] = Volume(4)],
                       !.bodies = {1, 2, 3, 4}, !.descs = {2}, !.sweeps = 3, !.merges = 1,
                       !.faults = 1]
Raw == [Base EXCEPT !.asks = << <<AskDigest("delete_body", 1), AskDigest("put_keyed", 2)>>,
                                <<AskPut(2, 1, TRUE)>> >>,
                    !.bodies = {1}, !.sweeps = 1]
\* A retained streamed write on a condition, which a delete may take from it.
Streamed == [Base EXCEPT !.asks = << <<[IfHolds(AskOpen(1, 1), 2) EXCEPT !.held = TRUE],
                                       Ask("put_chunk"), Ask("put_commit")>>,
                                     <<IfHolds(AskKey("delete_file", 1), 2)>> >>,
                         !.bound = [Empty EXCEPT ![1] = File(2)], !.bodies = {2},
                         !.faults = 1]
Reading == [Base EXCEPT !.asks = << <<AskKey("get_file", 1), AskKey("stat", 2), Ask("list"),
                                      AskKey("lookup", 1)>>,
                                    <<[AskKey("range", 1) EXCEPT !.dig = 2],
                                      AskDigest("get_body", 1), AskKey("retain", 2)>> >>,
                        !.bound = [Empty EXCEPT ![1] = File(1), ![2] = Held(2)],
                        !.bodies = {1, 2}]
Tight == [Racing EXCEPT !.pend = 3, !.queue = 1, !.faults = 0]

MCConfigs == {Racing, Volumes, Mapped, Raw, Streamed, Reading, Tight}

\* A client's write finds its body stored, and the sweep about to delete it.
OrphanConfigs == {[Base EXCEPT !.asks = << <<AskPut(1, 1, FALSE)>>, <<>> >>,
                               !.bodies = {1}, !.sweeps = 1]}
\* A key is retained while a raw delete of its body waits.
RetainConfigs == {[Base EXCEPT !.asks = << <<AskDigest("delete_body", 1)>>,
                                           <<[AskKey("retain", 1) EXCEPT !.held = TRUE]>> >>,
                               !.bound = [Empty EXCEPT ![1] = File(1)], !.bodies = {1}]}
\* Three clients' bodies at once, on a plane that holds one answer.
WedgeConfigs == {[Base EXCEPT !.asks = << <<AskDigest("get_body", 1), AskDigest("put_body", 2)>>,
                                          <<AskDigest("get_body", 1), AskDigest("put_body", 2)>>,
                                          <<AskDigest("put_body", 2)>>,
                                          <<AskDigest("put_body", 2)>> >>,
                              !.bodies = {1}, !.answers = 1]}
=============================================================================
