---------------------------- MODULE MCEditorViews ----------------------------
(* Instance of EditorViews; its bounds are in the configuration. *)
EXTENDS EditorViews
=============================================================================
