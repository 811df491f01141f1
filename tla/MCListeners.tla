------------------------------ MODULE MCListeners ------------------------------
(***************************************************************************)
(* Model checking the listeners that mail traces, and the one that writes  *)
(* them to rolling files.  They share no state, so one behaviour is one of *)
(* a single listener: the variable `which' says of which, and the others   *)
(* stay in their initial states.                                           *)
(***************************************************************************)
EXTENDS EmailTraceListener, BufferedEmailTraceListener, RollingTextWriter

VARIABLE which

MCInit == /\ which \in {"buffered", "email", "file"}
          /\ BufferedInit /\ FloodInit /\ RollingInit

MCNext == \/ which = "buffered" /\ BufferedNext /\ UNCHANGED <<which, floodVars, fileVars>>
          \/ which = "email" /\ FloodNext /\ UNCHANGED <<which, mailVars, fileVars>>
          \/ which = "file" /\ RollingNext /\ UNCHANGED <<which, mailVars, floodVars>>

MCSpec == MCInit /\ [][MCNext]_<<which, mailVars, floodVars, fileVars>>

\* No property of the run and no guard tells a mail sent from one that failed, or reads subject
\* and header (EmailHeader.cfg is about these): states that differ in nothing else are one.
MailStage == [m \in Mail |-> IF mail[m] \in Finished THEN "ended" ELSE mail[m]]
MCView == <<which, floodVars, fileVars, buffer, writer, sender, content, written, discarded,
            waiting, MailStage>>

MCSymmetry == Permutations(Trace) \cup Permutations(Proc)
================================================================================
