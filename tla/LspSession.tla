------------------------------ MODULE LspSession ------------------------------
(***************************************************************************)
(* One session of `craftgo lsp` (internal/lsp): the documents the editor    *)
(* has open, the read loop that handles its messages one at a time, the     *)
(* diagnostics it publishes for the design files and the manifests, the     *)
(* watched-file events a change on disk gives rise to, and how Serve ends.  *)
(*                                                                          *)
(* A design file is a member of Files, opened under one URI, so a file      *)
(* stands for its URI and its path.  DesignRoot[f] is the only directory    *)
(* above f that may hold a manifest: design roots are not nested.  The text *)
(* of a file is what the analysis tells apart: it declares the type the     *)
(* others may name, names it, or does not parse.                            *)
(***************************************************************************)
EXTENDS Naturals, Sequences, FiniteSets, SequencesExt, Functions

CONSTANTS Files,        \* the design files
          Roots,        \* the directories that may hold a manifest
          DesignRoot,   \* [Files -> Roots]
          FileTexts,        \* the texts of a file: "declares", "names", "broken"
          Manifests,    \* a manifest: "absent", "unloadable", "fine", "odd"
          InitDisks,    \* the texts on disk a session may start from
          InitManifests,  \* the manifests of the roots a session may start from
          MaxEvents,    \* bound on what the editor and the disk do
          MaxInbox      \* bound on the messages under way to the server

RootsAssumption == DesignRoot \in [Files -> Roots]

None == "none"

VARIABLES
    buffers,    \* what the editor shows: open file -> text
    disk,       \* the text of each file on disk, or None
    manifest,   \* each root's manifest on disk
    inbox,      \* the editor's messages the read loop has not taken
    watch,      \* a watched-file event is under way
    watching,   \* the editor has the registration of the watchers
    unseen,     \* the disk changed before the editor watched it
    docs,       \* server.docs
    manifests,  \* server.manifests, by root
    shown,      \* the diagnostics last published for each file and manifest
    call,       \* the registration call of onInitialized
    loop,       \* the read loop of the connection: reading, or how it ended
    shutdown,   \* server.shutdown
    exit,       \* server.exit is closed
    serve,      \* Serve: serving, or its result
    closed,     \* the editor's end of the connection: open, at its end or broken
    events      \* what the editor and the disk have done, capped

editor == <<buffers, disk, manifest, watch, watching, unseen, closed, events>>
server == <<docs, manifests, shown, call, loop, shutdown, exit, serve>>
vars == <<buffers, disk, manifest, inbox, watch, watching, unseen, docs,
          manifests, shown, call, loop, shutdown, exit, serve, closed, events>>

(***************************************************************************)
(* The analysis                                                             *)
(***************************************************************************)

\* The design root whose loadable manifest holds f; None outside a project.
ProjectOf(f) ==
    IF manifest[DesignRoot[f]] \in {"fine", "odd"} THEN DesignRoot[f] ELSE None

isUnderDesignRoot(f, r) == DesignRoot[f] = r

\* The text of a file: its open buffer, else the disk copy.
readFile(f, open) == IF f \in DOMAIN open THEN open[f] ELSE disk[f]

\* Every design file under r, open buffers over disk, the open ones the walk
\* does not find included.
designSources(r, f, src, open) ==
    LET over == (f :> src) @@ open
        found == {g \in Files : isUnderDesignRoot(g, r) /\ disk[g] # None}
        extra == {g \in DOMAIN over : g = f \/ isUnderDesignRoot(g, r)}
    IN  [g \in found \cup extra |-> readFile(g, over)]

loadProject(f, src, open) ==
    IF ProjectOf(f) = None THEN (f :> src)
    ELSE designSources(ProjectOf(f), f, src, open)

\* What parsing and analysing a project finds in one of its files.
Analyze(srcs, f) ==
    (IF srcs[f] = "broken" THEN {"syntax"} ELSE {})
      \cup (IF srcs[f] = "names" /\ "declares" \notin Range(srcs)
            THEN {"unresolved"} ELSE {})

\* The diagnostics of each file of the project of f.
buildProjectDiagnostics(f, src, open) ==
    LET srcs == loadProject(f, src, open)
    IN  [g \in DOMAIN srcs |-> Analyze(srcs, g)]

\* The analysis of the design reports on a manifest value.
ManifestAnalysis(r) == IF manifest[r] = "odd" THEN {"value"} ELSE {}

\* The diagnostics of the manifest of r, and whether it is there.
manifestDiagnostics(r) ==
    [diags |-> IF manifest[r] = "unloadable" THEN {"unloadable"} ELSE {},
     ok |-> manifest[r] # "absent"]

(***************************************************************************)
(* Publishing: p is [shown, manifests]                                      *)
(***************************************************************************)

publish(p, key, diags) == [p EXCEPT !.shown[key] = diags]

publishManifest_kept(p, r, analysis) ==
    LET m == manifestDiagnostics(r)
    IN  [publish(p, r, m.diags \cup IF m.ok THEN analysis ELSE {})
           EXCEPT !.manifests = @ \cup IF m.ok THEN {r} ELSE {}]

\* A manifest that is gone is cleared and forgotten.
publishManifest(p, r, analysis) ==
    LET m == manifestDiagnostics(r)
    IN  [publish(p, r, m.diags \cup IF m.ok THEN analysis ELSE {})
           EXCEPT !.manifests = IF m.ok THEN @ \cup {r} ELSE @ \ {r}]

diagsFor(perFile, f) == IF f \in DOMAIN perFile THEN perFile[f] ELSE {}

\* The diagnostics of f, of the open files under its design root and of the
\* root's manifest or, outside a project, of the manifest published above f.
publishDiagnostics(p, f, src, open) ==
    LET perFile == buildProjectDiagnostics(f, src, open)
        root == ProjectOf(f)
        covered == {f} \cup {g \in DOMAIN open : root # None /\ isUnderDesignRoot(g, root)}
        q == [p EXCEPT !.shown = [k \in DOMAIN @ |->
                IF k \in covered THEN diagsFor(perFile, k) ELSE @[k]]]
        above == DesignRoot[f]
    IN  CASE root # None -> publishManifest(q, root, ManifestAnalysis(root))
          [] root = None /\ above \in q.manifests -> publishManifest(q, above, {})
          [] OTHER -> q

published == [shown |-> shown, manifests |-> manifests]

Publish(p) ==
    /\ shown' = p.shown
    /\ manifests' = p.manifests

(***************************************************************************)
(* The handlers                                                             *)
(***************************************************************************)

storeDoc(f, text) == (f :> text) @@ docs

onDidOpen(f, text) ==
    /\ docs' = storeDoc(f, text)
    /\ Publish(publishDiagnostics(published, f, text, docs'))

\* Full sync: the message carries the whole buffer.
onDidChange(f, text) ==
    /\ docs' = storeDoc(f, text)
    /\ Publish(publishDiagnostics(published, f, text, docs'))

\* A save without text re-checks the open buffer.
onDidSave(f, text) ==
    IF text = None
    THEN IF f \in DOMAIN docs
         THEN /\ docs' = docs
              /\ Publish(publishDiagnostics(published, f, docs[f], docs))
         ELSE UNCHANGED <<docs, shown, manifests>>
    ELSE /\ docs' = storeDoc(f, text)
         /\ Publish(publishDiagnostics(published, f, text, docs'))

onDidClose_alone(f) ==
    LET cleared == publish(published, f, {})
        root == ProjectOf(f)
        rest == \E g \in DOMAIN docs \ {f} : ProjectOf(g) = root
    IN  /\ docs' = [g \in DOMAIN docs \ {f} |-> docs[g]]
        /\ Publish(IF root \in manifests
                   THEN publishManifest(cleared, root, IF rest THEN ManifestAnalysis(root) ELSE {})
                   ELSE cleared)

\* The closed file is cleared; one publishDiagnostics re-checks the open files
\* of its root, whichever of them the map yields, else the root's manifest is.
onDidClose(f) ==
    LET cleared == publish(published, f, {})
        root == ProjectOf(f)
        same == {g \in DOMAIN docs \ {f} : ProjectOf(g) = root}
    IN  /\ docs' = [g \in DOMAIN docs \ {f} |-> docs[g]]
        /\ \/ root = None /\ Publish(cleared)
           \/ /\ root # None
              /\ \E g \in same : Publish(publishDiagnostics(cleared, g, docs[g], docs'))
           \/ /\ root # None /\ same = {}
              /\ Publish(IF root \in manifests
                         THEN publishManifest(cleared, root, {}) ELSE cleared)

\* One publishDiagnostics per design root with an open file, in the order the
\* map of documents yields them, then the other manifests published before.
onDidChangeWatchedFiles(order) ==
    LET first(i) == \/ ProjectOf(order[i]) = None
                    \/ \A j \in 1 .. i - 1 : ProjectOf(order[j]) # ProjectOf(order[i])
        due == {i \in DOMAIN order : first(i)}
        open == FoldLeft(LAMBDA p, i : IF i \in due
                            THEN publishDiagnostics(p, order[i], docs[order[i]], docs)
                            ELSE p,
                         published, [i \in DOMAIN order |-> i])
        seen == {ProjectOf(f) : f \in DOMAIN docs}
    IN  Publish(FoldSet(LAMBDA r, p : publishManifest(p, r, {}), open, open.manifests \ seen))

\* The registration of the watchers is asked for in a goroutine: the reply is
\* a message of the read loop, which does not wait for it.
onInitialized == call' = "asked"

signalExit == exit' = TRUE

\* The handler of one message of the editor; a response to the registration
\* ends the call.
handler(m) ==
    \/ /\ m.method = "didOpen" /\ onDidOpen(m.file, m.text)
       /\ UNCHANGED <<call, loop, shutdown, exit, serve>>
    \/ /\ m.method = "didChange" /\ onDidChange(m.file, m.text)
       /\ UNCHANGED <<call, loop, shutdown, exit, serve>>
    \/ /\ m.method = "didSave" /\ onDidSave(m.file, m.text)
       /\ UNCHANGED <<call, loop, shutdown, exit, serve>>
    \/ /\ m.method = "didClose" /\ onDidClose(m.file)
       /\ UNCHANGED <<call, loop, shutdown, exit, serve>>
    \/ /\ m.method = "initialized" /\ onInitialized
       /\ UNCHANGED <<docs, manifests, shown, loop, shutdown, exit, serve>>
    \/ /\ m.method = "response" /\ call' = "over"
       /\ UNCHANGED <<docs, manifests, shown, loop, shutdown, exit, serve>>
    \/ /\ m.method = "shutdown" /\ shutdown' = TRUE
       /\ UNCHANGED <<docs, manifests, shown, call, loop, exit, serve>>
    \/ /\ m.method = "exit" /\ signalExit
       /\ UNCHANGED <<docs, manifests, shown, call, loop, shutdown, serve>>

Running == serve = "serving"

\* The read loop takes the next message and handles it to its end.
Read ==
    /\ Running /\ loop = "reading" /\ inbox # <<>>
    /\ inbox' = Tail(inbox)
    /\ handler(Head(inbox))
    /\ UNCHANGED editor

\* A watched-file event reaches the handler, not ordered with the documents'.
ReadWatch ==
    /\ Running /\ loop = "reading" /\ watch
    /\ watch' = FALSE
    /\ unseen' = FALSE
    /\ \E order \in SetToSeqs(DOMAIN docs) : onDidChangeWatchedFiles(order)
    /\ UNCHANGED <<buffers, disk, manifest, inbox, watching, closed, events, docs,
                   call, loop, shutdown, exit, serve>>

\* The end of the input, or a read that fails, ends the connection, which
\* cancels the call.
ReadEnd ==
    /\ Running /\ loop = "reading" /\ inbox = <<>> /\ ~watch /\ closed # "open"
    /\ loop' = closed
    /\ call' = IF call = "asked" THEN "over" ELSE call
    /\ UNCHANGED <<inbox, docs, manifests, shown, shutdown, exit, serve, editor>>

\* What Serve returns for an exit, and for a connection that is over: the
\* error that broke it, unless that is the end of the input.
ExitResult_ends == "ended"

ExitResult == IF shutdown THEN "ended" ELSE "unasked"

DoneResult_swallow == "ended"

DoneResult == IF loop = "eof" THEN "ended" ELSE "broken"

\* Serve's select takes what is ready; Serve may come to it only once both
\* are, and then takes either.
Serve ==
    /\ Running
    /\ \/ exit /\ serve' = ExitResult
       \/ loop # "reading" /\ serve' = DoneResult
    /\ UNCHANGED <<inbox, docs, manifests, shown, call, loop, shutdown, exit, editor>>

(***************************************************************************)
(* The editor and the disk                                                  *)
(***************************************************************************)

Send(m) ==
    /\ closed = "open" /\ Len(inbox) < MaxInbox
    /\ \A i \in DOMAIN inbox : inbox[i].method # "exit"
    /\ inbox' = Append(inbox, m)

Counted ==
    /\ events < MaxEvents
    /\ events' = events + 1

Talks == Running /\ ~exit

\* The text the editor opens a file with is the disk copy.
Open ==
    /\ Talks /\ Counted
    /\ \E f \in Files \ DOMAIN buffers :
         /\ disk[f] # None
         /\ buffers' = (f :> disk[f]) @@ buffers
         /\ Send([method |-> "didOpen", file |-> f, text |-> disk[f]])
    /\ UNCHANGED <<disk, manifest, watch, watching, unseen, closed, server>>

Edit ==
    /\ Talks /\ Counted
    /\ \E f \in DOMAIN buffers, t \in FileTexts :
         /\ t # buffers[f]
         /\ buffers' = [buffers EXCEPT ![f] = t]
         /\ Send([method |-> "didChange", file |-> f, text |-> t])
    /\ UNCHANGED <<disk, manifest, watch, watching, unseen, closed, server>>

\* What a change on disk tells the server: an event if the editor watches.
DiskChanged ==
    /\ watch' = (watch \/ watching)
    /\ unseen' = (unseen \/ ~watching)

\* A save writes the buffer and tells the server, with or without the text.
Save ==
    /\ Talks /\ Counted
    /\ \E f \in DOMAIN buffers, withText \in BOOLEAN :
         /\ disk' = [disk EXCEPT ![f] = buffers[f]]
         /\ Send([method |-> "didSave", file |-> f,
                  text |-> IF withText THEN buffers[f] ELSE None])
    /\ DiskChanged
    /\ UNCHANGED <<buffers, manifest, watching, closed, server>>

\* A buffer may be closed with its edits unsaved.
Close ==
    /\ Talks /\ Counted
    /\ \E f \in DOMAIN buffers :
         /\ buffers' = [g \in DOMAIN buffers \ {f} |-> buffers[g]]
         /\ Send([method |-> "didClose", file |-> f])
    /\ UNCHANGED <<disk, manifest, watch, watching, unseen, closed, server>>

\* A tool writes or removes a design file or a manifest on disk.
WriteFile ==
    /\ Talks /\ Counted
    /\ \E f \in Files, t \in FileTexts \cup {None} :
         /\ t # disk[f]
         /\ disk' = [disk EXCEPT ![f] = t]
    /\ DiskChanged
    /\ UNCHANGED <<buffers, manifest, inbox, watching, closed, server>>

WriteManifest ==
    /\ Talks /\ Counted
    /\ \E r \in Roots, m \in Manifests :
         /\ m # manifest[r]
         /\ manifest' = [manifest EXCEPT ![r] = m]
    /\ DiskChanged
    /\ UNCHANGED <<buffers, disk, inbox, watching, closed, server>>

\* The editor registers the watchers, or refuses to, and answers.
AnswerRegistration ==
    /\ Running /\ call = "asked"
    /\ \A i \in DOMAIN inbox : inbox[i].method # "response"
    /\ closed = "open"
    /\ inbox' = Append(inbox, [method |-> "response"])
    /\ watching' \in {watching, TRUE}
    /\ UNCHANGED <<buffers, disk, manifest, watch, unseen, closed, events, server>>

\* The session may end with shutdown and exit, with exit alone, or by the
\* editor going away.
Shutdown ==
    /\ Talks /\ ~shutdown /\ Send([method |-> "shutdown"])
    /\ Counted
    /\ UNCHANGED <<buffers, disk, manifest, watch, watching, unseen, closed, server>>

Exit ==
    /\ Talks /\ Send([method |-> "exit"])
    /\ Counted
    /\ UNCHANGED <<buffers, disk, manifest, watch, watching, unseen, closed, server>>

HangUp ==
    /\ Running /\ closed = "open" /\ Counted
    /\ closed' \in {"eof", "broken"}
    /\ UNCHANGED <<buffers, disk, manifest, inbox, watch, watching, unseen, server>>

Init ==
    /\ buffers = <<>>
    /\ disk \in InitDisks
    /\ manifest \in InitManifests
    /\ inbox = <<[method |-> "initialized"]>>
    /\ watch = FALSE /\ watching = FALSE /\ unseen = FALSE
    /\ docs = <<>> /\ manifests = {}
    /\ shown = [k \in Files \cup Roots |-> {}]
    /\ call = "none" /\ loop = "reading"
    /\ shutdown = FALSE /\ exit = FALSE /\ serve = "serving"
    /\ closed = "open" /\ events = 0

\* The session is over, or nobody has anything left to do.
Rest ==
    /\ \/ ~Running
       \/ events = MaxEvents /\ inbox = <<>> /\ ~watch /\ call # "asked" /\ ~exit /\ closed = "open"
    /\ UNCHANGED vars

Next ==
    \/ Read \/ ReadWatch \/ ReadEnd \/ Serve
    \/ Open \/ Edit \/ Save \/ Close \/ WriteFile \/ WriteManifest
    \/ AnswerRegistration \/ Shutdown \/ Exit \/ HangUp
    \/ Rest

Spec == Init /\ [][Next]_vars

(***************************************************************************)
(* Properties                                                               *)
(***************************************************************************)

\* What the editor should show for an open file: its project analysed with the
\* editor's own buffers over what is on disk now.
Expected(f) == buildProjectDiagnostics(f, buffers[f], buffers)[f]

\* Every message is handled and no change on disk is untold.
Settled == inbox = <<>> /\ ~watch /\ ~unseen

\* Once settled, each open file shows what analysing the editor's buffers over
\* the disk finds, whatever order edits, saves, closes, watched-file events and
\* manifest changes were handled in, and a closed file shows nothing.
DiagnosticsFresh ==
    Running /\ Settled =>
        \A f \in Files : shown[f] = IF f \in DOMAIN buffers THEN Expected(f) ELSE {}

\* Once settled, a manifest the session published shows its own diagnostics,
\* with those of the analysis while a file of its design is open, and one it
\* forgot or never published shows none.
ManifestFresh ==
    Running /\ Settled =>
        \A r \in Roots :
            /\ r \in manifests => manifest[r] # "absent"
            /\ shown[r] =
                 IF r \notin manifests THEN {}
                 ELSE manifestDiagnostics(r).diags
                        \cup (IF \E f \in DOMAIN buffers : ProjectOf(f) = r
                              THEN ManifestAnalysis(r) ELSE {})

\* Serve ends well only after a shutdown and an exit or at the end of the connection, and with the
\* error that broke the connection otherwise; an exit that no shutdown came before is its error,
\* unless the connection ended too before Serve came to its select, which then takes either.  A
\* call still waiting for the editor does not outlive the connection.
EndsRight ==
    /\ serve = "unasked" => exit /\ ~shutdown
    /\ serve = "broken" => loop = "broken"
    /\ serve = "ended" => loop = "eof" \/ (exit /\ shutdown)
    /\ ~Running /\ loop = "reading" => exit /\ (serve = "ended") = shutdown
    /\ loop # "reading" => call # "asked"
    /\ \A f \in DOMAIN docs : docs[f] \in FileTexts
    /\ events \in 0 .. MaxEvents

===============================================================================
