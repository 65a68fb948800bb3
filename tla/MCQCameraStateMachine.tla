------------------------ MODULE MCQCameraStateMachine ------------------------
(* Small instances of QCameraStateMachine.                                 *)
EXTENDS QCameraStateMachine
=============================================================================
