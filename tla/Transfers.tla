----------------------------- MODULE Transfers -----------------------------
(***************************************************************************)
(* What leaves and enters a workspace: the dialog that imports a file into *)
(* a project, with the two-step route behind it, and the buttons of the    *)
(* editor that export a diagram.  Every call of the browser may be lost    *)
(* and answered late; a file is told apart by what it can be read as.      *)
(***************************************************************************)
EXTENDS Naturals, Sequences

CONSTANTS
    Files,          \* files the user may choose
    Formats,        \* "excalidraw", imported after a preview, and DSLs, imported at once
    Valid,          \* pairs <<file, format>> that the server can read
    TransferCalls,  \* bound: calls in flight
    MaxTransfers    \* bound: calls ever made

\* the names of formats, buttons and calls are different names
ASSUME TransferAssumption ==
    /\ "excalidraw" \in Formats /\ Valid \subseteq Files \X Formats
    /\ "none" \notin Files
    /\ Formats \cap {"none", "read", "preview", "confirm", "formats", "bundle"} = {}

VARIABLES
    dialog,    \* ImportDialog: [open, format, phase, file, readAs, preview, title]; readAs is history
    buttons,   \* [Buttons -> phase] of ExportMenu and BundleButton
    xfer,      \* [TransferCalls -> call]
    made,      \* calls made so far
    imported,  \* the diagrams imports created: [file, format, readAs, seeded]
    opened,    \* imported diagrams the page went to
    steady     \* history: the user waited for every answer, and no call failed on its way

importVars == <<dialog, imported, opened>>
transferVars == <<dialog, buttons, xfer, made, imported, opened, steady>>

Buttons == {"formats", "bundle"} \cup (Formats \ {"excalidraw"})
NoFile == "none"
NoTransfer == [op |-> "none"]
Cleared == [open |-> FALSE, format |-> "excalidraw", phase |-> "idle", file |-> NoFile, readAs |-> NoFile,
            preview |-> NoFile, title |-> FALSE]

TransferInit ==
    /\ dialog = Cleared /\ buttons = [b \in Buttons |-> "idle"]
    /\ xfer = [k \in TransferCalls |-> NoTransfer] /\ made = 0
    /\ imported = <<>> /\ opened = {} /\ steady = TRUE

NothingOut == \A k \in TransferCalls : xfer[k].op = "none"
\* the user does something: a call still out is not waited for
Acts == steady' = (steady /\ NothingOut)
Issue(k, op, file, format, readAs) ==
    /\ xfer[k].op = "none" /\ made < MaxTransfers
    /\ xfer' = [xfer EXCEPT ![k] = [op |-> op, file |-> file, format |-> format, readAs |-> readAs, at |-> "sent", new |-> 0]]
    /\ made' = made + 1
    /\ Acts

-----------------------------------------------------------------------------
(* ImportDialog: what the user does.  The page that shows it is left when  *)
(* an import succeeds.                                                     *)

Here == opened = {}
UserChanges(d) == dialog' = d /\ Acts /\ UNCHANGED <<buttons, xfer, made, imported, opened>>

OpenDialog == Here /\ ~dialog.open /\ UserChanges([Cleared EXCEPT !.open = TRUE])
CloseDialog == Here /\ dialog.open /\ UserChanges(Cleared)
\* for the mutant: what was read under the other format stays
HandleFormatChangeKept == \E f \in Formats \ {dialog.format} : Here /\ dialog.open /\ UserChanges([dialog EXCEPT !.format = f])
\* the file and the preview go with the format
HandleFormatChange ==
    \E f \in Formats \ {dialog.format} :
        Here /\ dialog.open /\ UserChanges([Cleared EXCEPT !.open = TRUE, !.format = f])
TypeTitle == Here /\ dialog.phase = "previewed" /\ ~dialog.title /\ UserChanges([dialog EXCEPT !.title = TRUE])
\* a file can be chosen in every phase; its text takes a while, and the format is the one of this moment
HandleFileChange(k) ==
    /\ Here /\ dialog.open
    /\ \E f \in Files : Issue(k, "read", f, dialog.format, dialog.format)
    /\ UNCHANGED <<importVars, buttons>>
CanConfirm ==
    /\ Here /\ dialog.open /\ dialog.phase = "previewed" /\ dialog.file # NoFile
    /\ dialog.format = "excalidraw" => dialog.preview # NoFile /\ dialog.title
HandleConfirm(k) ==
    /\ CanConfirm
    /\ Issue(k, "confirm", dialog.file, dialog.format, dialog.readAs)
    /\ dialog' = [dialog EXCEPT !.phase = "confirming"]
    /\ UNCHANGED <<buttons, imported, opened>>

-----------------------------------------------------------------------------
(* The routes                                                              *)

Goes(k, at) == xfer' = [xfer EXCEPT ![k].at = at]
SentAs(k, ops) == xfer[k].op \in ops /\ xfer[k].at = "sent"
Readable(k) == <<xfer[k].file, xfer[k].format>> \in Valid

\* no session, no role in the workspace of the project, or one that may not write
RefuseImport(k) ==
    /\ SentAs(k, {"preview", "confirm"}) /\ Goes(k, "error")
    /\ UNCHANGED <<importVars, buttons, made, steady>>
\* no session or no role in the workspace of the diagram; the formats and the bundle are also limited in rate
RefuseExport(k) ==
    /\ SentAs(k, Buttons)
    /\ Goes(k, "error") \/ (xfer[k].op \in {"formats", "bundle"} /\ Goes(k, "rate_limited"))
    /\ UNCHANGED <<importVars, buttons, made, steady>>
\* previewImport, alone or at the start of an import; a DSL that cannot be read is no bad request but an error
PreviewImport(k) ==
    /\ SentAs(k, {"preview", "confirm"})
    /\ Goes(k, IF ~Readable(k) THEN IF xfer[k].format = "excalidraw" THEN "invalid" ELSE "error"
               ELSE IF xfer[k].op = "preview" THEN "ok" ELSE "parsed")
    /\ UNCHANGED <<importVars, buttons, made, steady>>
\* confirmImport and importDiagramFromDsl: the diagram first ...
CreateImported(k) ==
    /\ xfer[k].op = "confirm" /\ xfer[k].at = "parsed"
    /\ imported' = Append(imported, [file |-> xfer[k].file, format |-> xfer[k].format, readAs |-> xfer[k].readAs, seeded |-> FALSE])
    /\ xfer' = [xfer EXCEPT ![k].at = "created", ![k].new = Len(imported) + 1]
    /\ UNCHANGED <<dialog, opened, buttons, made, steady>>
\* ... then its first revision, by appendOperation
SeedImported(k) ==
    /\ xfer[k].op = "confirm" /\ xfer[k].at = "created"
    /\ imported' = [imported EXCEPT ![xfer[k].new].seeded = TRUE]
    /\ Goes(k, "ok")
    /\ UNCHANGED <<dialog, opened, buttons, made, steady>>
\* the four formats, each put and signed, or the one bundle, or the text of a DSL; then the audit record
GenerateExport(k) ==
    /\ SentAs(k, Buttons) /\ Goes(k, "ok")
    /\ UNCHANGED <<importVars, buttons, made, steady>>
\* a step of the server fails, or the call or its answer is lost
LoseTransfer(k) ==
    /\ xfer[k].op \notin {"none", "read"} /\ xfer[k].at # "error"
    /\ Goes(k, "error")
    /\ steady' = (steady /\ xfer[k].at \notin {"created", "ok"})
    /\ UNCHANGED <<importVars, buttons, made>>

-----------------------------------------------------------------------------
(* The answers.  The handlers look neither at the dialog nor at a later    *)
(* call of their kind.                                                     *)

\* handleFileChange goes on: the text is set, and an .excalidraw file goes to the server for its preview
FileRead(k) ==
    /\ xfer[k].op = "read"
    /\ dialog' = [dialog EXCEPT !.file = xfer[k].file, !.readAs = xfer[k].readAs, !.preview = NoFile,
                    !.phase = IF xfer[k].format = "excalidraw" THEN "previewing" ELSE "previewed"]
    /\ xfer' = [xfer EXCEPT ![k] = IF @.format = "excalidraw" THEN [@ EXCEPT !.op = "preview"] ELSE NoTransfer]
    /\ UNCHANGED <<buttons, made, imported, opened, steady>>
Came(k, ops) == xfer[k].op \in ops /\ xfer[k].at \in {"ok", "invalid", "error", "rate_limited"}
EndTransfer(k) == xfer' = [xfer EXCEPT ![k] = NoTransfer]
Previewed(k) ==
    /\ Came(k, {"preview"})
    /\ dialog' = IF xfer[k].at = "ok" THEN [dialog EXCEPT !.phase = "previewed", !.preview = xfer[k].file]
                 ELSE [dialog EXCEPT !.phase = xfer[k].at]
    /\ EndTransfer(k)
    /\ UNCHANGED <<buttons, made, imported, opened, steady>>
\* closeDialog and the way to the new diagram, whatever dialog is open by now
Confirmed(k) ==
    /\ Came(k, {"confirm"})
    /\ IF xfer[k].at = "ok"
       THEN dialog' = Cleared /\ opened' = opened \cup {xfer[k].new}
       ELSE dialog' = [dialog EXCEPT !.phase = xfer[k].at] /\ UNCHANGED opened
    /\ EndTransfer(k)
    /\ UNCHANGED <<buttons, made, imported, steady>>

-----------------------------------------------------------------------------
(* ExportMenu and BundleButton: each button waits for its own answer       *)

HandleExport(k, b) ==
    /\ buttons[b] # "generating"
    /\ Issue(k, b, NoFile, "none", "none")
    /\ buttons' = [buttons EXCEPT ![b] = "generating"] /\ UNCHANGED importVars
\* the bundle is opened at once, a DSL saved as a file, the four formats offered as links
AfterExport(b, at) == IF at = "ok" THEN IF b = "bundle" THEN "idle" ELSE "ready"
                      ELSE IF at = "rate_limited" /\ b = "formats" THEN at ELSE "error"
Exported(k) ==
    /\ Came(k, Buttons)
    /\ buttons' = [buttons EXCEPT ![xfer[k].op] = AfterExport(xfer[k].op, xfer[k].at)]
    /\ EndTransfer(k)
    /\ UNCHANGED <<importVars, made, steady>>

ImportNext ==
    \/ OpenDialog \/ CloseDialog \/ HandleFormatChange \/ TypeTitle
    \/ \E k \in TransferCalls :
         \/ HandleFileChange(k) \/ HandleConfirm(k) \/ FileRead(k) \/ Previewed(k) \/ Confirmed(k)
         \/ PreviewImport(k) \/ CreateImported(k) \/ SeedImported(k)
         \/ RefuseImport(k) \/ LoseTransfer(k)
ExportNext ==
    \E k \in TransferCalls :
         \/ \E b \in Buttons : HandleExport(k, b)
         \/ GenerateExport(k) \/ Exported(k) \/ RefuseExport(k) \/ LoseTransfer(k)

TransferSpec == TransferInit /\ [][ImportNext \/ ExportNext]_transferVars

-----------------------------------------------------------------------------
\* XPRT-07..12 and INT-06..14.  In every session, however answers and clicks overlap, the page goes only to diagrams
\* that hold their scene, and a button that waits has exactly one call out.  When the user waits for each answer and no
\* call dies behind the creation: what can be confirmed is the file that was previewed, no file read under one format
\* is imported under another ("never lets a file read under one format get submitted under another",
\* ImportDialog.tsx:79), and every diagram an import created is one the page went to.
ImportsWhatWasShown ==
    /\ \A n \in opened : imported[n].seeded
    /\ \A b \in Buttons : buttons[b] = "generating" => \E k \in TransferCalls : {j \in TransferCalls : xfer[j].op = b} = {k}
    /\ steady =>
         /\ dialog.phase = "previewed" =>
              dialog.file # NoFile /\ (dialog.format = "excalidraw" => dialog.preview = dialog.file)
         /\ \A n \in DOMAIN imported : imported[n].format = imported[n].readAs
         /\ NothingOut => opened = DOMAIN imported
=============================================================================
