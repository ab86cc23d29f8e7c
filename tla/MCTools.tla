------------------------------ MODULE MCTools ------------------------------
(***************************************************************************)
(* The command line and the editor, for TLC: three machines side by side,  *)
(* an author's file as the parser and the formatter see it (DesignFile),   *)
(* the runs of craftgo gen over a project (GenPass) and a language server  *)
(* session (LspSession).  An execution is of one machine, the others rest  *)
(* in an initial state, so the states add up and do not multiply.          *)
(***************************************************************************)
EXTENDS DesignFile

CONSTANTS
    MaxRuns, MaxMishaps, MaxGenEvents,  \* GenPass
    MaxLspEvents, MaxInbox              \* LspSession

VARIABLES
    machine,    \* the machine that runs
    gen_design, gen_manifest, gen_disk, gen_dirs, gen_temps, gen_pc, gen_sel, gen_files, gen_i,
    gen_made, gen_staged, gen_paths, gen_before, gen_touched, gen_seen, gen_outcome, gen_runs,
    gen_mishaps, gen_edits,
    lsp_buffers, lsp_disk, lsp_manifest, lsp_inbox, lsp_watch, lsp_watching, lsp_unseen, lsp_docs,
    lsp_manifests, lsp_shown, lsp_call, lsp_loop, lsp_shutdown, lsp_exit, lsp_serve, lsp_closed,
    lsp_events

genVars ==
    <<gen_design, gen_manifest, gen_disk, gen_dirs, gen_temps, gen_pc, gen_sel, gen_files, gen_i,
      gen_made, gen_staged, gen_paths, gen_before, gen_touched, gen_seen, gen_outcome, gen_runs,
      gen_mishaps, gen_edits>>
lspVars ==
    <<lsp_buffers, lsp_disk, lsp_manifest, lsp_inbox, lsp_watch, lsp_watching, lsp_unseen, lsp_docs,
      lsp_manifests, lsp_shown, lsp_call, lsp_loop, lsp_shutdown, lsp_exit, lsp_serve, lsp_closed,
      lsp_events>>

-----------------------------------------------------------------------------
\* DesignFile: a file of each kind of declaration.
Marks == {"{", "}", "(", ")", "[", "]", "<", ">", ",", ":", "=", "?", ".", "/",
          "@", "-"}
Lexeme(w) == IF w \in Marks THEN Mark(w)
             ELSE IF w \in {"0", "1", "01"} THEN [k |-> "Int", t |-> w]
             ELSE IF w = "1.5" THEN [k |-> "Float", t |-> w]
             ELSE IF w \in DOMAIN StringValue THEN [k |-> "String", t |-> w]
             ELSE IF w = "items" THEN [k |-> "PathWord", t |-> w]
             ELSE Word(w)
File(ls) == [l \in 1..Len(ls) |->
               Line([i \in 1..Len(ls[l]) |-> Lexeme(ls[l][i])], "")]

TypeFile == File(<< <<"type", "A", "<", "T", ">", "{">>,
                    <<"@", "d">>,
                    <<"x", "map", "<", "int", ",", "T", ">", "[", "]">>,
                    <<"y", "B", "@", "default", "(", "01", ")">>,
                    <<"C">>,
                    <<"}">> >>)
ListFile == File(<< <<"@", "d", "(", "[", "1", ",", "[", "0", "]", "]", ")">>,
                    <<"scalar", "A", "string">> >>)
ArgFile == File(<< <<"type", "A", "{">>,
                   <<"x", "B", "<", "int", ",", "C", ">", "?", "@", "e", "(", "{", "x", ":", "-", "1.5", ",", "y", ":", "[", "]", "}", ")">>,
                   <<"}">> >>)
EnumFile == File(<< <<"enum", "A", "{">>,
                    <<"B", "=", "-", "1">>,
                    <<"@", "d", "(", "x", ":", "1", ")">>,
                    <<"C", "=", "\"email\"", "@", "d">>,
                    <<"type">>,
                    <<"}">> >>)
ErrorFile == File(<< <<"error", "NotFound", "B", "{">>,
                     <<"x", "int">>,
                     <<"}">>,
                     <<"error", "NotFound", "C">> >>)
ScalarFile == File(<< <<"@", "format", "(", "\"email\"", ")">>,
                      <<"scalar", "A", "string", "@", "format", "(", "\"type\"", ")">>,
                      <<"@", "d", "(", ")">>,
                      <<"middleware", "B">>,
                      <<"event", "C", "{">>,
                      <<"payload", "A", "[", "]">>,
                      <<"}">> >>)
ServiceFile == File(<< <<"service", "A", "{">>,
                      <<"@", "d">>,
                      <<"get", "B", "/", "items", "/", "{", "x", "}", "{">>,
                      <<"response", "A">>,
                      <<"request", "B", "<", "C", ">">>,
                      <<"}">>,
                      <<"}">> >>)
ExtendFile == File(<< <<"@", "d">>, <<"package", "p">>,
                      <<"extend", "service", "A", "{">>,
                      <<"post", "C", "/", "{", "}">>,
                      <<"}">> >>)
FileTemplates == {TypeFile, ListFile, ArgFile, EnumFile, ErrorFile, ScalarFile, ServiceFile, ExtendFile}
FileRest == File(<< <<"type", "N", "{">>, <<"z", "string">>, <<"}">> >>)

-----------------------------------------------------------------------------
\* GenPass: an application, with a link below output.types or at the root, and a contracts project.
GenOut == [types |-> <<"types">>, transport |-> <<"transport">>, routes |-> <<"routes">>,
        wiring |-> <<"wiring">>, service |-> <<"service">>, middleware |-> <<"middleware">>,
        config |-> <<"config">>, pb |-> <<"pb">>, grpc |-> <<"grpc">>,
        svccontext |-> <<"svccontext">>, openapi |-> <<"docs", "openapi.yaml">>,
        events |-> <<"events">>]
GenStem == [greet |-> [pb |-> "greet.pb.go", grpc |-> "greet_grpc.pb.go"]]
GenApp == [kind |-> "application", runtime |-> FALSE, pb |-> TRUE, openapi |-> TRUE, events |-> TRUE,
        out |-> GenOut, stem |-> GenStem, included |-> {}, eventDirs |-> {<<"events">>, <<"gen">>}, links |-> {}]
\* a link below output.types to output.transport
Linked == [GenApp EXCEPT !.links = {[at |-> <<"types", "link">>, to |-> <<"transport">>]}, !.runtime = TRUE]
Rooted == [GenApp EXCEPT !.out.types = <<>>, !.openapi = FALSE]
Contracts == [GenApp EXCEPT !.kind = "contracts", !.out.events = <<"gen">>]
GenManifests == {Linked, Rooted, Contracts}

Pkg(n) == [name |-> n, types |-> FALSE, scalars |-> "none", enums |-> FALSE, errors |-> "none",
           events |-> FALSE, middlewares |-> {}, services |-> {}]
Method(n, g, b) == [name |-> n, group |-> g, body |-> b]
A == [Pkg("a") EXCEPT !.types = TRUE, !.events = TRUE,
        !.services = {[name |-> "svc", methods |-> {Method("get", "", TRUE)}]}]
B == [Pkg("a") EXCEPT !.scalars = "checked"]
\* svc again, in another case
Cased == [name |-> "greet", services |-> {[dir |-> "Svc", methods |-> {"hello"}]}]
Greet == [name |-> "greet", services |-> {[dir |-> "greeter", methods |-> {"hello"}]}]
Clash == [name |-> "greet", services |-> {[dir |-> "svc", methods |-> {"get"}]}]
Design(n, ps, protos, ok) == [name |-> n, pkgs |-> ps, protos |-> protos, valid |-> ok]
GenDesigns == {Design("http", {A}, {}, TRUE), Design("grpc", {B}, {Greet}, TRUE),
              Design("clash", {A}, {Clash}, TRUE), Design("cased", {A}, {Cased}, TRUE),
              Design("broken", {}, {}, FALSE)}
GenSelections == {{}, {"docs"}}
GenUserPaths == {<<"service", "svc", "get">>, <<"transport", "svc", "own.go">>}

-----------------------------------------------------------------------------
\* LspSession: two files in one design root, a third in another.
LspFiles == {"a", "b", "c"}
LspRoots == {"R", "S"}
LspDesignRoot == [f \in LspFiles |-> IF f = "c" THEN "S" ELSE "R"]
LspInitDisks == {[f \in LspFiles |-> IF f = "a" THEN "declares" ELSE "names"]}
LspInitManifests == {[r \in LspRoots |-> IF r = "R" THEN m ELSE "odd"] : m \in {"absent", "odd"}}

Gen == INSTANCE GenPass WITH
    Designs <- GenDesigns, Manifests <- GenManifests, Selections <- GenSelections,
    UserPaths <- GenUserPaths, MaxEdits <- 1, MaxEvents <- MaxGenEvents, design <- gen_design,
    manifest <- gen_manifest, disk <- gen_disk, dirs <- gen_dirs, temps <- gen_temps, pc <- gen_pc,
    sel <- gen_sel, files <- gen_files, i <- gen_i, made <- gen_made, staged <- gen_staged,
    paths <- gen_paths, before <- gen_before, touched <- gen_touched, seen <- gen_seen,
    outcome <- gen_outcome, runs <- gen_runs, mishaps <- gen_mishaps, edits <- gen_edits
Lsp == INSTANCE LspSession WITH
    Files <- LspFiles, Roots <- LspRoots, DesignRoot <- LspDesignRoot,
    FileTexts <- {"declares", "names"}, Manifests <- {"absent", "unloadable", "odd"},
    InitDisks <- LspInitDisks, InitManifests <- LspInitManifests,
    MaxEvents <- MaxLspEvents, buffers <- lsp_buffers, disk <- lsp_disk,
    manifest <- lsp_manifest, inbox <- lsp_inbox, watch <- lsp_watch, watching <- lsp_watching,
    unseen <- lsp_unseen, docs <- lsp_docs, manifests <- lsp_manifests, shown <- lsp_shown,
    call <- lsp_call, loop <- lsp_loop, shutdown <- lsp_shutdown, exit <- lsp_exit,
    serve <- lsp_serve, closed <- lsp_closed, events <- lsp_events

ASSUME InstanceConstants == Gen!BudgetsAssumption /\ Lsp!RootsAssumption

-----------------------------------------------------------------------------
all == <<machine, vars, genVars, lspVars>>

\* A machine at rest has one initial state.
AnyInit ==
    /\ machine \in {"file", "gen", "lsp"}
    /\ machine # "gen" => /\ gen_design = CHOOSE d \in GenDesigns : TRUE
                         /\ gen_manifest = CHOOSE m \in GenManifests : TRUE
    /\ machine # "lsp" => lsp_manifest = CHOOSE m \in LspInitManifests : TRUE
    /\ Init /\ Gen!Init /\ Lsp!Init

\* The author and the user of gen may stop; a session is over, or somebody has something to do.
Stops == machine \in {"file", "gen"} /\ UNCHANGED all

AnyNext ==
    \/ machine = "file" /\ Next /\ UNCHANGED <<machine, genVars, lspVars>>
    \/ machine = "gen" /\ Gen!Next /\ UNCHANGED <<machine, vars, lspVars>>
    \/ machine = "lsp" /\ Lsp!Next /\ UNCHANGED <<machine, vars, genVars>>
    \/ Stops

AnySpec == AnyInit /\ [][AnyNext]_all

-----------------------------------------------------------------------------
\* Whatever the author edits, formatting the file then keeps what it says, changes nothing the
\* second time and refuses it only for a comment it cannot keep in place; a file without a
\* diagnostic is read to the last lexeme, and after a mistake the parser reads the declaration
\* below (internal/format, internal/parser).
FileKept == [][text' # text => ToolsKeep(text')]_all

\* A run of gen that fails before its first rename leaves the tree as it found it, one that ends
\* well leaves every file of its targets and no stale one, and no two files of a run share a path
\* (codegen.Generate, genfile.Set.Flush, the sweep).
TreeSettled == machine = "gen" => Gen!TreeAsItWas /\ Gen!Settled /\ Gen!RenderedApart

\* No step of a run changes or removes a file of the user's, other than one at a path the design
\* regenerates (genfile, apply, prune).
UserKept == Gen!UserKept

\* Once its messages are handled, the editor shows for each open file, and for each manifest, what
\* analysing its buffers over the disk finds; Serve ends as the session did (internal/lsp).
EditorFresh == machine = "lsp" => Lsp!DiagnosticsFresh /\ Lsp!ManifestFresh /\ Lsp!EndsRight
=============================================================================
