------------------------------ MODULE SpecState ------------------------------
(* What SpecFlow and WorkOrchestration share: a feature's Spec, its handoff and
   its branch. *)
EXTENDS SpecGates

VARIABLES spec,     \* Absent, or the documents in the Spec's directory
          handoff,  \* implementation-handoff.md
          changes   \* path -> what the branch did to it: "same", "modified" or "deleted"
=============================================================================
