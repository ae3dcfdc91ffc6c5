---------------------------- MODULE MCObservations ----------------------------
(* Two sources of one room; the first is revised, and that revision arrives as  *)
(* history, so that live rows, historical rows and superseded rows all compete. *)
EXTENDS Observations

CONSTANTS m1, m2

MCSources == {m1, m2}
MCRoomOf == [s \in MCSources |-> "chat"]
MCHistorical == {<<m1, 2>>}
MCMaxRevision == [s \in MCSources |-> IF s = m1 THEN 2 ELSE 1]
=============================================================================
