---------------------------- MODULE MCTranscript ----------------------------
(* Instances of Transcript for TLC; a call is a string. *)
EXTENDS Transcript

\* Two compressions in one run, a compression and a crash, a crash and a
\* /compact, or one message in between.
FewSurprises ==
  /\ 2 * counts'.hints + counts'.compressions + counts'.compacts + counts'.crashes <= 2
  /\ counts'.compressions = 0 \/ counts'.compacts = 0
  /\ counts'.compressions < 2 \/ counts'.runs + counts'.recoveries < 2
=============================================================================
