----------------------------- MODULE MCNamespace -----------------------------
(***************************************************************************)
(* Small instances of Namespace.                                           *)
(***************************************************************************)
EXTENDS Namespace, TLC

Symmetry == Permutations(Oid)

\* While the module runs it reads no record of its log but the one staged: only
\* a boot replays the others.  Without a crash, states that differ in those are one.
StagedView ==
    <<mode, arena, gen, newer, Len(log), IF tail = "staged" THEN log[Len(log)] ELSE Blank,
      tail, wal, reserved, pos, phase, cursor, out, decided, strained>>
===============================================================================
