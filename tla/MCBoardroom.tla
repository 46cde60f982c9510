------------------------------ MODULE MCBoardroom ------------------------------
(***************************************************************************)
(* Four components of the manager's side that share no variable, each      *)
(* checked in states of its own; of the rows the manager's tools write,    *)
(* one cell at a time, since no step reads or writes two.                  *)
(***************************************************************************)
EXTENDS ManagerDesk, Boardroom, Transcript, WebSearch

VARIABLE part      \* the component that runs, or the cell written

mcVars == <<part, deskVars, boardroomVars, transcriptVars, webVars>>

MCInit == /\ part \in {<<"board">>, <<"talk">>, <<"web">>} \cup Cells
          /\ DeskInit /\ BoardInit /\ TranscriptInit /\ WebInit
          /\ part # <<"web">> => quota = 1 /\ cap = 1

OnlyOn(cell) == /\ \A x \in Cells \ {cell} : column'[x] = column[x]
                /\ \A c \in ToolCalls : writing'[c].cell \in {cell, Blank}

MCNext ==
    /\ UNCHANGED part
    /\ \/ part = <<"board">> /\ BoardNext /\ UNCHANGED <<deskVars, transcriptVars, webVars>>
       \/ part = <<"talk">> /\ TranscriptNext /\ UNCHANGED <<deskVars, boardroomVars, webVars>>
       \/ part = <<"web">> /\ WebNext /\ UNCHANGED <<deskVars, boardroomVars, transcriptVars>>
       \/ part \in Cells /\ DeskNext /\ OnlyOn(part)
             /\ UNCHANGED <<boardroomVars, transcriptVars, webVars>>

MCSpec == MCInit /\ [][MCNext]_mcVars /\ BoardFairness

\* The rows of desk, meetings, conversations and searches keep their type.
TypesOK == DeskTypeOK /\ BoardTypeOK /\ TranscriptTypeOK /\ WebTypeOK
=============================================================================
