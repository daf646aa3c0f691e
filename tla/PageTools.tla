----------------------------- MODULE PageTools -----------------------------
(***************************************************************************)
(* What four kinds of tools of this server do with pages, checked          *)
(* together: those of RequestTools, and the bodies that are written and    *)
(* read (PageBody), whose operators are recursive.  A behaviour of this    *)
(* module is one of RequestTools, to which a body adds nothing.            *)
(***************************************************************************)
EXTENDS RequestTools

CONSTANT Documents  \* of PageBody

VARIABLES markdown, events, builder, written

Body == INSTANCE PageBody

bodyVars == <<markdown, events, builder, written>>

NoBody == markdown = None /\ events = None /\ builder = None /\ written = None

ToolInit ==
  /\ RequestInit
  /\ \/ tool = "body" /\ Body!BodyInit
     \/ tool # "body" /\ NoBody

ToolNext ==
  \/ RequestNext /\ UNCHANGED bodyVars
  \/ tool = "body" /\ Body!BodyNext /\ UNCHANGED requestVars

ToolSpec == ToolInit /\ [][ToolNext]_<<requestVars, bodyVars>>

-----------------------------------------------------------------------------
\* What is written has the form of a Docmost document
\* (writer/build.rs:216-217, 292-293).
WellFormed == tool = "body" => Body!WellFormed

\* The writer keeps every word once, in order, with its marks
\* (writer/build.rs:176-178).
WriterKeepsText == tool = "body" => Body!WriterKeepsText

\* What was written is shown again, but for what the reader leaves out
\* (writer/mod.rs:13-15).
ReadBack == tool = "body" => Body!ReadBack
=============================================================================
