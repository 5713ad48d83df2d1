---------------------------- MODULE MCLiveEditing ---------------------------
EXTENDS LiveEditing, MCEdits

EditSpec == EditInit /\ [][EditNext]_editVars
=============================================================================
