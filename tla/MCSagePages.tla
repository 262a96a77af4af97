------------------------------ MODULE MCSagePages ------------------------------
(* A behaviour is about one question's pages or about the workspace's.       *)
EXTENDS QuestionRoom, WorkspaceDesk
CONSTANTS ann, ben, topic
People == {ann, ben}
Chair == {ann}
VARIABLE focus

PagesInit == RoomInit /\ DeskInit /\ focus \in {"room", "desk"}

PagesNext ==
  /\ UNCHANGED focus
  /\ \/ focus = "room" /\ RoomNext /\ UNCHANGED deskVars
     \/ focus = "desk" /\ DeskNext /\ UNCHANGED roomVars

PagesSpec == PagesInit /\ [][PagesNext]_<<roomVars, deskVars, focus>>
=============================================================================
