---------------------------- MODULE MCBodyFanout ----------------------------
(***************************************************************************)
(* Small instances of BodyFanout: two members, a body and a shard key      *)
(* whose bytes are that body's.                                            *)
(***************************************************************************)
EXTENDS BodyFanout
CONSTANTS d1, k1
MCContentOf == [n \in {d1, k1} |-> d1]
UpRank == [n \in {d1, k1} |-> <<0, 1>>]
DownRank == [n \in {d1, k1} |-> <<1, 0>>]
MCFleets == {{0}, {0, 1}}
\* Requests in sequence over one fault; a write, a read and two faults; a
\* scrub around one request and a fault, and around a write and a deletion.
MCConfigs ==
    {[scrub |-> FALSE, ops |-> Op \ {"range"}, requests |-> 3, kinds |-> FaultKind, faults |-> 1],
     [scrub |-> FALSE, ops |-> {"put", "range"}, requests |-> 2, kinds |-> FaultKind, faults |-> 2],
     [scrub |-> TRUE, ops |-> {"put", "put_keyed", "get"}, requests |-> 1, kinds |-> FaultKind, faults |-> 1],
     [scrub |-> TRUE, ops |-> {"put", "delete"}, requests |-> 2, kinds |-> FaultKind, faults |-> 0]}

\* Two streamed writes of different bodies on one member, one answer late.
MCStreams == {[scrub |-> FALSE, ops |-> {"wopen", "wappend", "wcommit"}, requests |-> 6,
               kinds |-> {"late"}, faults |-> 1]}
StreamSym == Permutations(Client) \cup Permutations(Digest)
StreamContent == [n \in Digest |-> n]
StreamRank == [n \in Digest |-> <<0>>]
=============================================================================
