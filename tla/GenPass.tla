------------------------------ MODULE GenPass ------------------------------
(***************************************************************************)
(* `craftgo gen` on a project's tree: one run after another, each over the *)
(* design as it then stands, narrowed to some targets or not.  A run       *)
(* renders everything in memory, stages a temporary beside every target,   *)
(* renames them one by one and sweeps what it no longer writes.  A step of *)
(* it may fail, the process may die between any two, and the user edits    *)
(* files and the design meanwhile.                                         *)
(***************************************************************************)
EXTENDS Sequences, FiniteSets, SequencesExt, FiniteSetsExt, Integers

(***************************************************************************)
(* What a `craftgo gen` run writes and what it sweeps.  The generators     *)
(* decide, one by one, which files they render (emit); the plan names, in  *)
(* code of its own, the paths the sweep covers and the files it must keep  *)
(* (plan).  The two are written apart and have to agree: a file that is    *)
(* rendered and not planned is deleted by the run that wrote it.           *)
(*                                                                         *)
(* A path is a sequence of names under the project root.  A design is a    *)
(* set of DSL packages and a set of protos; a manifest is a record of the  *)
(* keys that decide which files exist and where.                           *)
(***************************************************************************)

GeneratedHeader == "generated"
scaffoldHeader == "scaffold"
DocumentHeader == "document"
PluginHeader == "plugin"
NoHeader == "none"

Regenerated(at, head) == [at |-> at, once |-> FALSE, head |-> head, src |-> ""]
Once(at) == [at |-> at, once |-> TRUE, head |-> scaffoldHeader, src |-> ""]

writeGo(at) == <<Regenerated(at, GeneratedHeader)>>
writeGoOnce(at) == <<Once(at)>>

\* the members of S in one fixed order, and fn's files for each of them
InOrder(S) == FoldSet(LAMBDA x, acc : Append(acc, x), <<>>, S)
Each(S, fn(_)) == FoldSet(LAMBDA x, acc : acc \o fn(x), <<>>, S)
Paths(files) == {files[i].at : i \in DOMAIN files}

ContractsOnly(c) == c.kind = "contracts"
RuntimeDisabled(c) == ~c.runtime
HasServices(d) == \E p \in d.protos : p.services # {}
ProtoServices(d) == UNION {p.services : p \in d.protos}

-----------------------------------------------------------------------------
\* The segments of a design: a service's methods under one @group, and their directory

segment(p, s, g) == [pkg |-> p.name, svc |-> s.name, group |-> g,
                     dir |-> IF g # "" THEN g ELSE s.name,
                     methods |-> {m \in s.methods : m.group = g}]
distinctGroups(s) == {m.group : m \in s.methods}
segments(p) == UNION {{segment(p, s, g) : g \in distinctGroups(s)} : s \in p.services}
projectSegments(d) == UNION {segments(p) : p \in d.pkgs}
projectHasRoutes(d) == \E p \in d.pkgs : \E s \in p.services : s.methods # {}
projectMiddlewares(d) == UNION {p.middlewares : p \in d.pkgs}

pkgDeclaresTypes(p) == p.types \/ p.scalars # "none"
pkgValidates(p) == p.types \/ p.enums \/ p.scalars = "checked" \/ p.errors = "body"

\* a directory's bodies.gen.go holds the wire bodies of its methods
bodyNames(S) == UNION {{m.name : m \in {n \in s.methods : n.body}} : s \in S}

-----------------------------------------------------------------------------
\* The generators

generateTypes(c, p) == IF pkgDeclaresTypes(p) THEN writeGo(c.out.types \o <<p.name, "types.go">>) ELSE <<>>
generateEnums(c, p) == IF p.enums THEN writeGo(c.out.types \o <<p.name, "enums.go">>) ELSE <<>>
generateErrors(c, p) == IF p.errors # "none" THEN writeGo(c.out.types \o <<p.name, "errors.go">>) ELSE <<>>
generateValidators(c, p) ==
    IF pkgValidates(p) THEN writeGo(c.out.types \o <<p.name, "validate.go">>) ELSE <<>>

\* c.stem gives a proto the names of the files protoc-gen-go and protoc-gen-go-grpc write for it
writeResponse(c, p, f) == <<[at |-> c.out.pb \o <<f>>, once |-> FALSE, head |-> PluginHeader, src |-> p.name]>>
RunPlugins(d, c) ==
    IF ~c.pb THEN <<>>
    ELSE Each(d.protos, LAMBDA p : writeResponse(c, p, c.stem[p.name].pb))
         \o Each({p \in d.protos : p.services # {}}, LAMBDA p : writeResponse(c, p, c.stem[p.name].grpc))

generateProjectMiddlewares(d, c) ==
    writeGo(c.out.svccontext \o <<"middlewares.go">>)
    \o Each(projectMiddlewares(d), LAMBDA m : writeGoOnce(c.out.middleware \o <<m>>))

generateTransport(c, p) ==
    LET dirs == {s.dir : s \in segments(p)}
        segs(dir) == {s \in segments(p) : s.dir = dir}
        handlers(dir) == Each(UNION {s.methods : s \in segs(dir)},
                              LAMBDA m : writeGo(c.out.transport \o <<dir, m.name>>))
        bodies(dir) == IF bodyNames(segs(dir)) = {} THEN <<>>
                       ELSE writeGo(c.out.transport \o <<dir, "bodies.gen.go">>)
    IN Each(dirs, LAMBDA dir : handlers(dir) \o bodies(dir))
generateService(c, p) ==
    Each(segments(p), LAMBDA s :
        Each(s.methods, LAMBDA m : writeGoOnce(c.out.service \o <<s.dir, m.name>>)))
generateRoutes(c, p) ==
    Each({s.dir : s \in segments(p)},
         LAMBDA dir : writeGo(c.out.routes \o <<dir, "routes.go">>))
generateProjectRoutesUmbrella(d, c) ==
    IF projectSegments(d) = {} THEN <<>> ELSE writeGo(c.out.routes \o <<"routes.go">>)

generateGRPCServers(d, c) ==
    Each(ProtoServices(d), LAMBDA s :
        writeGo(c.out.grpc \o <<s.dir, "server">>)
        \o Each(s.methods, LAMBDA m : writeGo(c.out.grpc \o <<s.dir, m>>)))
generateGRPCServices(d, c) ==
    Each(ProtoServices(d), LAMBDA s :
        Each(s.methods, LAMBDA m : writeGoOnce(c.out.service \o <<s.dir, m>>)))
generateWiring(c) == writeGo(c.out.wiring \o <<"wiring.go">>)
generateWiringGRPC(d, c) == IF HasServices(d) THEN writeGo(c.out.wiring \o <<"grpc.go">>) ELSE <<>>
generateRuntimeConfig(c) ==
    IF RuntimeDisabled(c) THEN <<>>
    ELSE writeGoOnce(c.out.config \o <<"config.go">>)
         \o writeGoOnce(c.out.config \o <<"config.yaml">>)
         \o writeGoOnce(c.out.config \o <<"example.config.yaml">>)
generateSvccontext(c) ==
    IF RuntimeDisabled(c) THEN <<>> ELSE writeGoOnce(c.out.svccontext \o <<"svccontext.go">>)
generateProjectMain(d, c) ==
    IF RuntimeDisabled(c) \/ ~(projectHasRoutes(d) \/ HasServices(d)) THEN <<>>
    ELSE writeGoOnce(<<"main.go">>)

\* golang.Generate
GenerateGo(d, c) ==
    Each(d.pkgs, LAMBDA p : generateTypes(c, p) \o generateEnums(c, p)
                            \o generateErrors(c, p) \o generateValidators(c, p))
    \o RunPlugins(d, c)
    \o IF ContractsOnly(c) THEN <<>>
       ELSE generateProjectMiddlewares(d, c)
            \o Each({p \in d.pkgs : p.services # {}},
                    LAMBDA p : generateTransport(c, p) \o generateService(c, p) \o generateRoutes(c, p))
            \o generateGRPCServers(d, c) \o generateGRPCServices(d, c)
            \o generateProjectRoutesUmbrella(d, c) \o generateWiring(c) \o generateWiringGRPC(d, c)
            \o generateRuntimeConfig(c) \o generateSvccontext(c) \o generateProjectMain(d, c)

GenerateOpenAPI(d, c) ==
    IF c.openapi /\ d.pkgs # {} THEN <<Regenerated(c.out.openapi, DocumentHeader)>> ELSE <<>>

generatePackageEvents(c, p) ==
    IF p.events THEN writeGo(c.out.events \o <<p.name, "events.go">>) ELSE <<>>
GenerateEventTarget(d, c) == Each(d.pkgs, LAMBDA p : generatePackageEvents(c, p))
generateEventTargets(d, c, sel) ==
    IF c.events /\ "go" \in sel THEN GenerateEventTarget(d, c) ELSE <<>>

emit(d, c, sel) ==
    (IF "docs" \in sel THEN GenerateOpenAPI(d, c) ELSE <<>>)
    \o (IF "go" \in sel THEN GenerateGo(d, c) ELSE <<>>)
    \o generateEventTargets(d, c, sel)

-----------------------------------------------------------------------------
\* What is checked before anything is rendered

\* an RPC whose file would be the server's, or one the go command or the logic type cannot have
reservedRPCs == {"server", "Logger", "ping_test"}
LogicRival(m) == IF m = "Ping" THEN "NewPing" ELSE ""

\* strings.ToLower of the names the instances hold: a case-insensitive file system holds two
\* names that differ only in case as one
ToLower(name) == IF name = "Svc" THEN "svc" ELSE name

\* ValidateProtoOutputs without its second loop
ValidateProtoOutputs_names(d) == \A s \in ProtoServices(d) : s.methods \cap reservedRPCs = {}

\* ValidateProtoOutputs and checkCollisions find no two outputs that would overwrite each other
ValidateProtoOutputs(d) ==
    \A s \in ProtoServices(d) :
        /\ s.methods \cap reservedRPCs = {}
        /\ \A m \in s.methods : LogicRival(m) \notin s.methods
        /\ \A seg \in projectSegments(d) : ToLower(seg.dir) # ToLower(s.dir)
checkCollisions(d) ==
    \A s \in ProtoServices(d) :
        /\ \A t \in ProtoServices(d) \ {s} : ToLower(s.dir) # ToLower(t.dir)
        /\ \A m \in s.methods : \A n \in s.methods \ {m} : ToLower(m) # ToLower(n)

-----------------------------------------------------------------------------
\* The plan

\* disk maps a path to the file there: head is its header, src the proto a plugin header names,
\* ours whether it imports this design's output.types
Under(dir, p) == IsPrefix(dir, p) /\ dir # p
At(path, heads) == [path |-> path, heads |-> heads]

outputKeys(c) == {
    [dir |-> c.out.types, application |-> FALSE, files |-> {}],
    [dir |-> c.out.transport, application |-> TRUE, files |-> {}],
    [dir |-> c.out.routes, application |-> TRUE, files |-> {}],
    [dir |-> c.out.grpc, application |-> TRUE, files |-> {}],
    [dir |-> c.out.wiring, application |-> TRUE, files |-> {"wiring.go", "grpc.go"}],
    [dir |-> c.out.svccontext, application |-> TRUE, files |-> {"middlewares.go"}]}

PBFiles(d, c) ==
    IF ~c.pb THEN {}
    ELSE {c.out.pb \o <<c.stem[p.name].pb>> : p \in d.protos}
         \cup {c.out.pb \o <<c.stem[p.name].grpc>> : p \in {p \in d.protos : p.services # {}}}
writtenFor(c, src, name) == src \in DOMAIN c.stem /\ name \in {c.stem[src].pb, c.stem[src].grpc}

\* the plugin code design files own: the design folder is flat here, so any proto of the design
\* makes its directory one the design writes into
OwnedPBFiles(d, c, disk) ==
    IF d.protos = {} \/ ~c.pb THEN {}
    ELSE {p \in DOMAIN disk :
            /\ Front(p) = c.out.pb /\ Front(p) # <<>>
            /\ disk[p].head = PluginHeader
            /\ disk[p].src \notin c.included /\ writtenFor(c, disk[p].src, Last(p))}

sweptByGo(d, c, disk) ==
    LET ks == {k \in outputKeys(c) : ~(ContractsOnly(c) /\ k.application)}
    IN {At(k.dir, {GeneratedHeader}) : k \in {k \in ks : k.files = {}}}
       \cup UNION {{At(k.dir \o <<f>>, {GeneratedHeader}) : f \in k.files} : k \in ks}
       \cup {At(p, {PluginHeader}) : p \in OwnedPBFiles(d, c, disk)}

regeneratedFiles(d, c) ==
    UNION {LET in(cond, f) == IF cond THEN {c.out.types \o <<p.name, f>>} ELSE {}
           IN in(pkgDeclaresTypes(p), "types.go") \cup in(pkgValidates(p), "validate.go")
              \cup in(p.enums, "enums.go") \cup in(p.errors # "none", "errors.go") : p \in d.pkgs}
    \cup PBFiles(d, c)
    \cup IF ContractsOnly(c) THEN {}
         ELSE UNION {{c.out.transport \o <<s.dir, m.name>> : m \in s.methods}
                     \cup (IF bodyNames({s}) # {} THEN {c.out.transport \o <<s.dir, "bodies.gen.go">>} ELSE {})
                     \cup {c.out.routes \o <<s.dir, "routes.go">>, c.out.routes \o <<"routes.go">>}
                     : s \in projectSegments(d)}
              \cup UNION {{c.out.grpc \o <<s.dir, m>> : m \in s.methods \cup {"server"}} : s \in ProtoServices(d)}
              \cup {c.out.wiring \o <<"wiring.go">>, c.out.svccontext \o <<"middlewares.go">>}
              \cup (IF HasServices(d) THEN {c.out.wiring \o <<"grpc.go">>} ELSE {})

expectedEventFiles(d, c) ==
    {c.out.events \o <<p.name, "events.go">> : p \in {p \in d.pkgs : p.events}}

\* an event library left in a default directory the target writes into no more
StaleEventPlan(c, disk) ==
    {At(p, {GeneratedHeader}) : p \in {p \in DOMAIN disk :
        /\ Len(p) > 2 /\ Front(Front(p)) \in c.eventDirs /\ Last(p) = "events.go"
        /\ ~(c.events /\ Front(Front(p)) = c.out.events)
        /\ disk[p].head = GeneratedHeader /\ disk[p].ours}}

docsFiles(d, c) == IF c.openapi /\ d.pkgs # {} THEN {c.out.openapi} ELSE {}

\* the project root and its ancestors are never swept
owned(paths) == {[path |-> x.path, heads |-> UNION {y.heads : y \in {y \in paths : y.path = x.path}}]
                 : x \in {x \in paths : x.path # <<>>}}

sweepPaths(d, c, sel, disk) == owned(
    (IF "go" \in sel
     THEN sweptByGo(d, c, disk) \cup StaleEventPlan(c, disk)
          \cup (IF c.events THEN {At(c.out.events, {GeneratedHeader})} ELSE {})
     ELSE {})
    \cup (IF "docs" \in sel /\ c.openapi THEN {At(c.out.openapi, {DocumentHeader})} ELSE {}))

\* every file the targets write, selected or not
written(d, c) == regeneratedFiles(d, c) \cup docsFiles(d, c)
                 \cup (IF c.events THEN expectedEventFiles(d, c) ELSE {})

(***************************************************************************)

CONSTANTS
    Designs,    \* the designs the user moves between
    Manifests,  \* the manifests a project may have
    Selections, \* the sets of targets a run may be given, {} for none named
    UserPaths,  \* the paths the user may write a file of their own at
    MaxRuns,    \* bound: the runs
    MaxMishaps, \* bound: the steps that fail or die
    MaxEdits,   \* bound: the files the user writes
    MaxEvents   \* bound: runs, mishaps and edits together

BudgetsAssumption == {MaxRuns, MaxMishaps, MaxEdits, MaxEvents} \subseteq Nat

VARIABLES
    design, manifest, disk, dirs, temps,    \* the project: its files, directories, temporaries
    pc, sel, files, i, made, staged, paths, \* the run
    before,                                 \* the tree the run found, with what the user did since
    touched,                                \* what the user wrote since the run began
    seen,                                   \* what apply's look at a gen-once target found
    outcome, runs, mishaps, edits

tree == <<disk, dirs, temps>>
run == <<sel, files, i, made, staged, paths>>
world == <<design, manifest>>
counts == <<runs, mishaps, edits>>
vars == <<world, tree, pc, run, before, touched, seen, outcome, counts>>

targetDocs == "docs"
SelectableTargets == {"go", targetDocs}
selection(targets) == IF targets = {} THEN SelectableTargets ELSE targets

User == [head |-> NoHeader, src |-> "", ours |-> FALSE, from |-> "user"]
Body(f) == [head |-> f.head, src |-> f.src, ours |-> TRUE, from |-> design.name]
Exists(p) == p \in DOMAIN disk
Drop(S) == [p \in DOMAIN disk \ S |-> disk[p]]
Put(p, b) == [q \in DOMAIN disk \cup {p} |-> IF q = p THEN b ELSE disk[q]]
Parents(p) == {SubSeq(p, 1, n) : n \in 1..(Len(p) - 1)}
Snapshot == [disk |-> disk, dirs |-> dirs, temps |-> temps]
ResetRun == sel' = {} /\ files' = <<>> /\ i' = 1 /\ made' = {} /\ staged' = <<>> /\ paths' = <<>>

Init ==
    /\ design \in Designs /\ manifest \in Manifests
    /\ disk = <<>> /\ dirs = {} /\ temps = {}
    /\ pc = "idle" /\ sel = {} /\ files = <<>> /\ i = 1 /\ made = {} /\ staged = <<>> /\ paths = <<>>
    /\ before = Snapshot /\ touched = {} /\ seen = "nothing"
    /\ outcome = "none" /\ runs = 0 /\ mishaps = 0 /\ edits = 0

-----------------------------------------------------------------------------
\* genfile.Collect: the run's files, first write first

\* a gen-once file is rendered only when nothing is at its path, on disk or among the files
\* of the run; a regenerated one replaces what the run holds there
WriteOnce(fs, f) == IF Exists(f.at) \/ f.at \in Paths(fs) THEN fs ELSE Append(fs, f)
add(fs, f) ==
    IF f.at \in Paths(fs)
    THEN [n \in DOMAIN fs |-> IF fs[n].at = f.at THEN f ELSE fs[n]]
    ELSE Append(fs, f)
Collect(rendered) ==
    FoldLeft(LAMBDA fs, f : IF f.once THEN WriteOnce(fs, f) ELSE add(fs, f), <<>>, rendered)

Ends(o) == pc' = "idle" /\ outcome' = o /\ ResetRun /\ seen' = "nothing"
Room == runs + mishaps + edits < MaxEvents
Mishap == mishaps < MaxMishaps /\ Room /\ mishaps' = mishaps + 1

\* runGen up to Commit.  A design with errors, or whose outputs collide, ends the run here,
\* and so does a generator or a plugin that fails
runGen(targets) ==
    LET s == selection(targets)
    IN /\ pc = "idle" /\ runs < MaxRuns /\ Room
       /\ runs' = runs + 1 /\ before' = Snapshot /\ touched' = {}
       /\ \/ /\ design.valid /\ checkCollisions(design) /\ ValidateProtoOutputs(design)
             /\ pc' = "stage" /\ sel' = s /\ files' = Collect(emit(design, manifest, s))
             /\ i' = 1 /\ made' = {} /\ staged' = <<>> /\ paths' = <<>>
             /\ outcome' = "running"
             /\ UNCHANGED <<seen, mishaps>>
          \/ /\ ~(design.valid /\ checkCollisions(design) /\ ValidateProtoOutputs(design))
             /\ Ends("refused")
             /\ UNCHANGED mishaps
          \/ Mishap /\ Ends("refused")
       /\ UNCHANGED <<world, tree, edits>>

-----------------------------------------------------------------------------
\* genfile.Commit: a temporary for every file, then the renames

mkdirAll(p) == Parents(p) \ dirs

\* writeTemp leaves a whole temporary; one the process dies in holds part of the body
Temp(f, b) == [at |-> f.at, head |-> b]

stage ==
    LET f == files[i]
    IN /\ pc = "stage" /\ i <= Len(files)
       /\ i' = i + 1
       /\ IF f.once /\ Exists(f.at)
          THEN UNCHANGED <<tree, made, staged>>
          ELSE /\ dirs' = dirs \cup mkdirAll(f.at) /\ made' = made \cup mkdirAll(f.at)
               /\ temps' = temps \cup {Temp(f, f.head)}
               /\ staged' = Append(staged, f)
               /\ UNCHANGED disk
       /\ UNCHANGED <<world, pc, sel, files, paths, before, touched, seen, outcome, counts>>

staging == {Temp(staged[n], staged[n].head) : n \in DOMAIN staged} \ before.temps

\* of the directories S, the ones with nothing left below them but others of S
Emptied(S, d, ts) == {x \in S : ~\E p \in (dirs \ S) \cup DOMAIN d \cup {t.at : t \in ts} : Under(x, p)}

\* abort that leaves the directories it made
abort_dirs(more) == temps' = temps \ staging /\ dirs' = dirs \cup more

abort(more) ==
    /\ temps' = temps \ staging
    /\ dirs' = (dirs \cup more) \ Emptied(made \cup more, disk, temps \ staging)

stageFails ==
    /\ pc = "stage" /\ i <= Len(files) /\ Mishap
    /\ ~(files[i].once /\ Exists(files[i].at))
    /\ \E n \in 0..Cardinality(mkdirAll(files[i].at)) :
         abort({p \in mkdirAll(files[i].at) : Len(p) <= Len(files[i].at) - 1 - n})
    /\ Ends("failed")
    /\ UNCHANGED <<world, disk, before, touched, runs, edits>>

stagedAll ==
    /\ pc = "stage" /\ i > Len(files)
    /\ pc' = "apply" /\ i' = 1
    /\ UNCHANGED <<world, tree, sel, files, made, staged, paths, before, touched, seen, outcome, counts>>

\* apply that trusts what stage saw
look_never ==
    /\ pc = "apply" /\ i <= Len(staged) /\ staged[i].once /\ seen = "nothing"
    /\ seen' = "free"
    /\ UNCHANGED <<world, tree, pc, run, before, touched, outcome, counts>>

\* apply looks at a gen-once target again before it renames over it
look ==
    /\ pc = "apply" /\ i <= Len(staged) /\ staged[i].once /\ seen = "nothing"
    /\ IF Exists(staged[i].at)
       THEN /\ temps' = temps \ {Temp(staged[i], staged[i].head)}
            /\ i' = i + 1 /\ seen' = "nothing"
       ELSE seen' = "free" /\ UNCHANGED <<temps, i>>
    /\ UNCHANGED <<world, disk, dirs, pc, sel, files, made, staged, paths, before, touched, outcome, counts>>

apply ==
    /\ pc = "apply" /\ i <= Len(staged)
    /\ staged[i].once => seen # "nothing"
    /\ disk' = Put(staged[i].at, Body(staged[i]))
    /\ temps' = temps \ {Temp(staged[i], staged[i].head)}
    /\ i' = i + 1 /\ seen' = "nothing"
    /\ UNCHANGED <<world, dirs, pc, sel, files, made, staged, paths, before, touched, outcome, counts>>

\* a rename that fails: the temporaries of the files not yet renamed go, what was renamed stays
applyFails ==
    /\ pc = "apply" /\ i <= Len(staged) /\ Mishap
    /\ staged[i].once => seen # "nothing"
    /\ temps' = temps \ {Temp(staged[n], staged[n].head) : n \in i..Len(staged)}
    /\ Ends("half")
    /\ UNCHANGED <<world, disk, dirs, before, touched, runs, edits>>

-----------------------------------------------------------------------------
\* The sweep

\* the links a walk of path follows: links to directories inside the project that it does not
\* reach without them
followed(path) == {l \in manifest.links : Under(path, l.at) /\ ~IsPrefix(path, l.to)}

\* walk.Files: the files below a path, each with the spelling it is reached by
visited(path, d) ==
    {[as |-> p, is |-> p] : p \in {p \in DOMAIN d : p = path \/ Under(path, p)}}
    \cup UNION {{[as |-> l.at \o SubSeq(p, Len(l.to) + 1, Len(p)), is |-> p]
                  : p \in {p \in DOMAIN d : Under(l.to, p)}}
                 : l \in followed(path)}

\* a written set that knows one spelling
has_spelled(v, w) == v.as \in w

\* writtenSet.has: the spelling the run wrote, or another one that names the same file
has(v, w) == v.as \in w \/ \E p \in w : Last(p) = Last(v.as) /\ p = v.is

stale(x, w) ==
    {v.is : v \in {v \in visited(x.path, disk) : ~has(v, w) /\ disk[v.is].head \in x.heads}}
\* the walk visits hidden files, so what a dead run staged is stale too
staleTemps(x) ==
    {t \in temps : /\ x.path \in dirs /\ t.head \in x.heads
                   /\ \/ t.at = x.path \/ Under(x.path, t.at)
                      \/ \E l \in followed(x.path) : Under(l.to, t.at)}

\* what is gone when the sweep of a path stops after its first n files
firstStale(x, n) == ToSet(SubSeq(InOrder(stale(x, written(design, manifest))), 1, n))
\* every point at which it may stop
stops(x) == 0..(Cardinality(stale(x, written(design, manifest))) - 1)

\* a directory emptied through a link goes, and so do its parents up to the link, which stays
pruneEmptyDirs(x, gone, ts) ==
    LET top == IF Exists(x.path) THEN <<>> ELSE x.path
        tops == {top} \cup {l.to : l \in followed(x.path)}
        chain == {y \in dirs : (\E z \in tops : Under(z, y)) /\ \E p \in gone : Under(y, p)}
    IN dirs \ Emptied(chain, Drop(gone), ts)

startSweep ==
    /\ pc = "apply" /\ i > Len(staged)
    /\ pc' = "sweep" /\ i' = 1
    /\ paths' = InOrder(sweepPaths(design, manifest, sel, disk))
    /\ UNCHANGED <<world, tree, sel, files, made, staged, before, touched, seen, outcome, counts>>

sweep(x, gone, goneTemps) ==
    /\ disk' = Drop(gone)
    /\ temps' = temps \ goneTemps
    /\ dirs' = pruneEmptyDirs(x, gone \cup {t.at : t \in goneTemps}, temps')

prune ==
    /\ pc = "sweep" /\ i <= Len(paths)
    /\ LET x == paths[i] IN sweep(x, stale(x, written(design, manifest)), staleTemps(x))
    /\ i' = i + 1
    /\ UNCHANGED <<world, pc, sel, files, made, staged, paths, before, touched, seen, outcome, counts>>

\* a file the sweep cannot remove ends it there; no directory is pruned for that path
pruneFails ==
    /\ pc = "sweep" /\ i <= Len(paths) /\ Mishap
    /\ \E n \in stops(paths[i]) : disk' = Drop(firstStale(paths[i], n))
    /\ Ends("unswept")
    /\ UNCHANGED <<world, dirs, temps, before, touched, runs, edits>>

done ==
    /\ pc = "sweep" /\ i > Len(paths)
    /\ pc' = "idle" /\ outcome' = "done"
    /\ UNCHANGED <<world, tree, run, before, touched, seen, counts>>

-----------------------------------------------------------------------------
\* The process dies: what it staged stays, a temporary it was writing holds part of the body

dies ==
    /\ pc # "idle" /\ Mishap
    /\ \/ UNCHANGED tree
       \/ /\ pc = "stage" /\ i <= Len(files) /\ ~(files[i].once /\ Exists(files[i].at))
          /\ dirs' = dirs \cup mkdirAll(files[i].at)
          /\ temps' = temps \cup {Temp(files[i], NoHeader)}
          /\ UNCHANGED disk
       \/ /\ pc = "sweep" /\ i <= Len(paths)
          /\ \E n \in stops(paths[i]) : disk' = Drop(firstStale(paths[i], n))
          /\ UNCHANGED <<dirs, temps>>
    /\ Ends("died")
    /\ UNCHANGED <<world, before, touched, runs, edits>>

-----------------------------------------------------------------------------
\* The user

UserWrites(p) ==
    /\ edits < MaxEdits /\ Room /\ edits' = edits + 1
    /\ disk' = Put(p, User) /\ dirs' = dirs \cup Parents(p)
    /\ before' = [before EXCEPT !.disk = [q \in DOMAIN @ \cup {p} |-> IF q = p THEN User ELSE @[q]],
                                !.dirs = @ \cup Parents(p)]
    /\ touched' = touched \cup {p}
    /\ seen' = IF seen = "free" /\ staged[i].at = p THEN "late" ELSE seen
    /\ UNCHANGED <<world, temps, pc, run, outcome, runs, mishaps>>

UserEditsDesign(d) ==
    /\ pc = "idle" /\ 0 < runs /\ runs < MaxRuns /\ Room /\ d # design /\ outcome # "none"
    /\ design' = d /\ outcome' = "none"
    /\ UNCHANGED <<manifest, tree, pc, run, before, touched, seen, counts>>

Next ==
    \/ \E targets \in Selections : runGen(targets)
    \/ stage \/ stageFails \/ stagedAll \/ look \/ apply \/ applyFails
    \/ startSweep \/ prune \/ pruneFails \/ done \/ dies
    \/ \E p \in UserPaths : UserWrites(p)
    \/ \E d \in Designs : UserEditsDesign(d)

Spec == Init /\ [][Next]_vars

-----------------------------------------------------------------------------
\* Properties

TypeOK ==
    /\ design \in Designs /\ manifest \in Manifests
    /\ pc \in {"idle", "stage", "apply", "sweep"}
    /\ outcome \in {"none", "running", "refused", "failed", "half", "unswept", "died", "done"}
    /\ \A p \in DOMAIN disk : Parents(p) \subseteq dirs
    /\ \A t \in temps : Parents(t.at) \subseteq dirs
    /\ touched \subseteq UserPaths /\ seen \in {"nothing", "free", "late"}
    /\ i \in 1..(1 + Len(files) + Len(paths)) /\ sel \subseteq SelectableTargets
    /\ runs \in 0..MaxRuns /\ mishaps \in 0..MaxMishaps /\ edits \in 0..MaxEdits

\* A run that is refused, cannot render or fails to write before its first rename leaves the
\* tree as it found it: the same files, no temporary of its own, no directory it made, and
\* the files the user wrote meanwhile.  A file or temporary always has its directories.
TreeAsItWas == TypeOK /\ (outcome \in {"refused", "failed"} => Snapshot = before)

\* What Generate's comment says of every failure to render or write: the tree is as it was.
\* A rename that fails after others of the run's files were renamed leaves those in place.
WriteFailureLeavesTree == outcome \in {"refused", "failed", "half"} => Snapshot = before

\* No step of a run changes or removes a file of the user's, other than one at a path the
\* design regenerates; a gen-once file is only replaced when the user made it after apply looked.
UserKept == [][\A p \in DOMAIN disk :
    disk[p].from = "user" =>
        \/ p \in DOMAIN disk' /\ disk'[p] = disk[p]
        \/ pc = "apply" /\ staged[i].at = p /\ (staged[i].once => seen = "late")]_vars

\* A run that ends well leaves every file its targets render, from the design of the run, and
\* no generated file of an older design where it swept, temporaries of dead runs included.  What
\* the other targets own stays, and so does nothing of its own that is temporary.
Settled == outcome = "done" =>
    LET rendered == emit(design, manifest, sel)
        keep == Paths(emit(design, manifest, SelectableTargets))
    IN /\ \A n \in DOMAIN rendered :
            LET f == rendered[n] IN f.at \in DOMAIN disk /\ (f.once \/ f.at \in touched \/ disk[f.at] = Body(f))
       /\ keep \cap DOMAIN before.disk \subseteq DOMAIN disk
       /\ \A x \in sweepPaths(design, manifest, sel, before.disk) :
            /\ \A p \in DOMAIN disk :
                 (p = x.path \/ Under(x.path, p)) /\ disk[p].head \in x.heads => p \in keep
            /\ x.path \in dirs => ~\E t \in temps : Under(x.path, t.at) /\ t.head \in x.heads
       /\ temps \subseteq before.temps

\* No two files of a run share a path: the checks before rendering refuse every design in which
\* one file would overwrite, or silently stand in for, another.
RenderedApart == pc = "stage" => Cardinality(Paths(files)) = Len(files)
                              /\ Len(emit(design, manifest, sel)) = Cardinality(Paths(emit(design, manifest, sel)))
=============================================================================
