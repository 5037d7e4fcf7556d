----------------------------- MODULE ServerFiles -----------------------------
(***************************************************************************)
(* The program of Server with the merge of ConfigMerge, which is recursive *)
(* and which the theorems about Server leave open.                         *)
(***************************************************************************)
EXTENDS Server, ConfigMerge

\* What both files say is what the program reads: no setting, list item or field
\* of an item is lost or invented by the merge, and the credentials win.
MergeKeepsSettings ==
  startup = "merged" /\ Mergeable(files.base, files.overlay)
    => Settings(config) = Expected(files.base, files.overlay)
=============================================================================
