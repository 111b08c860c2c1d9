---------------------------- MODULE MCUnitOfWork ----------------------------
(***************************************************************************)
(* Small instances of UnitOfWork: aggregates a1 and a2, values v1 and v2.  *)
(***************************************************************************)
EXTENDS UnitOfWork

CONSTANTS a1, a2, v1, v2

MCAggregates == {a1, a2}
MCOneAggregate == {a1}
MCValues == {v1, v2}
=============================================================================
