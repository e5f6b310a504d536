---------------------------- MODULE MCAppliance ----------------------------
(***************************************************************************)
(* For TLC: what survives restarts (Appliance) and what the web pages show *)
(* (WebText).  The two share the HTTP task but no state that a property is *)
(* about, so once the firmware is up a behaviour goes on with one of them, *)
(* and the other rests.                                                    *)
(***************************************************************************)
EXTENDS Appliance, WebText

mcVars == <<applianceVars, textVars>>

MCInit == ApplianceInit /\ TextInit

ApplianceMoves(A) == events = 0 /\ A /\ UNCHANGED textVars
TextMoves(A) == /\ phase = "up" /\ gnss = "ready" /\ requests + losses = 0
                /\ A
                /\ UNCHANGED applianceVars

MCNext == ApplianceMoves(ApplianceNext) \/ TextMoves(TextNext)

\* Fairness of Appliance: power stays on or comes back, and neither app_main nor
\* the GNSS task is starved.  No request has to come.
MCSpec == /\ MCInit /\ [][MCNext]_mcVars
          /\ WF_mcVars(ApplianceMoves(StartUp))
          /\ WF_mcVars(ApplianceMoves(GnssTask))

\* The types of all variables.
TypeOK == ApplianceTypeOK /\ TextTypeOK
=============================================================================
