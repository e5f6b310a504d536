------------------------------ MODULE MCNtrip ------------------------------
(***************************************************************************)
(* The two NTRIP components for TLC.  Uplinks and caster get the same      *)
(* frames and share nothing else (RtcmFanout has what they do to the       *)
(* pool), so a behaviour here follows one of them and lets the other rest. *)
(***************************************************************************)
EXTENDS NtripUplink, NtripCaster, TLC

CONSTANTS u1, u2

VARIABLE follow   \* which of the two this behaviour follows

MCUplinks == {u1, u2}
MCWithPassword == {u1}

mcVars == <<uplinkVars, casterVars, follow>>

MCInit == UplinkInit /\ CasterInit /\ follow \in {"uplinks", "caster"}

UplinkMoves(A) == follow = "uplinks" /\ A /\ UNCHANGED <<casterVars, follow>>
CasterMoves(A) == follow = "caster" /\ A /\ UNCHANGED <<uplinkVars, follow>>

MCNext == UplinkMoves(UplinkNext) \/ CasterMoves(CasterNext)

\* UplinkFairness and CasterFairness for the one that is followed.
MCSpec == /\ MCInit /\ [][MCNext]_mcVars
          /\ \A u \in Uplinks : WF_mcVars(UplinkMoves(UplinkTask(u)))
          /\ WF_mcVars(CasterMoves(CasterTask))

\* The types of both components' variables.
TypeOK == UplinkTypeOK /\ CasterTypeOK
=============================================================================
