------------------------------ MODULE MCAttach ------------------------------
(* What a tab shows, one part per behaviour: its terminal, with a few      *)
(* mounts of one or two tabs, or the transcript of its session. `focus`    *)
(* names the part that runs; the other stays as it starts.                 *)
EXTENDS Attach, Transcript, TLC

CONSTANTS k1, k2, u1, u2, u3, z1, z2, t1

VARIABLE focus

tabVars == <<focus, attachVars, transcriptVars>>

TabInit ==
    /\ focus \in {"terminal", "transcript"}
    /\ AttachInit /\ TranscriptInit /\ (focus = "terminal" => ~directory)

TabNext ==
    /\ UNCHANGED focus
    /\ \/ focus = "terminal" /\ AttachNext /\ UNCHANGED transcriptVars
       \/ focus = "transcript" /\ TranscriptNext /\ UNCHANGED attachVars

TabSpec == TabInit /\ [][TabNext]_tabVars

\* A tail that has lost a race, or was closed, is not followed further: what
\* its reader is shown is claimed of the others
Unlost == \A t \in Tails : tail[t].raced = {} /\ ~Gone(tail[t])

Symmetric == Permutations(Users) \cup Permutations(Keys)
                \cup Permutations(Sizes)
=============================================================================
