------------------------------- MODULE MCExports -------------------------------
(* An export and an import, each on its own: they share no state but the    *)
(* row's form.                                                              *)
EXTENDS ExportJobs, ImportJob

VARIABLE part   \* which of the two this behaviour is about

mcVars == <<part, exportVars, source, copies, used, pos, skipped, overran>>
NoExport == store = {} /\ todo = NoBoxes /\ still = NoBoxes /\ attested = {}
NoImport == source = TRUE /\ copies = <<>> /\ used = 0 /\ pos = <<>> /\ skipped = {} /\ overran = {}
MCInit ==
    \/ part = "export" /\ ExportInit /\ NoImport
    \/ part = "import" /\ ImportInit /\ NoExport
MCExportNext == part = "export" /\ ExportNext /\ UNCHANGED <<part, source, copies, used, pos, skipped, overran>>
MCImportNext == part = "import" /\ ImportNext /\ UNCHANGED <<part, jobVars>>
MCNext == MCExportNext \/ MCImportNext
MCExportStep(x) == part = "export" /\ ExportStep(x) /\ UNCHANGED <<part, source, copies, used, pos, skipped, overran>>
MCExportTime == part = "export" /\ ExportTime /\ UNCHANGED <<part, source, copies, used, pos, skipped, overran>>
MCImportStep(x) == part = "import" /\ ImportStep(x) /\ UNCHANGED <<part, jobVars>>
MCImportTime == part = "import" /\ ImportTime /\ UNCHANGED <<part, jobVars>>
MCSpec ==
    /\ MCInit /\ [][MCNext]_mcVars /\ WF_mcVars(MCExportTime) /\ WF_mcVars(MCImportTime)
    /\ \A x \in Workers : WF_mcVars(MCExportStep(x)) /\ WF_mcVars(MCImportStep(x))

\* Invariants of each part, in its own behaviours.
ImportHolds == part = "import" => ImportAccounted
================================================================================
