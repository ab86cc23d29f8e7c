--------------------------- MODULE DesignServices ---------------------------
(***************************************************************************)
(* The services of a design: what the analyser (internal/semantic) checks  *)
(* of their routes, names, output directories, operation ids and           *)
(* middlewares, what the Go target registers and writes for them, and what *)
(* the OpenAPI document says of them.  The state is the design as its      *)
(* author grows it, one method at a time; every question is about each     *)
(* design so reached.                                                      *)
(*                                                                         *)
(* A menu fixes the manifest and the declarations a run starts from:       *)
(*   base        openapi.basePath, as segments                             *)
(*   fileCase    output.fileCase                                           *)
(*   svcs        the services, each with a primary and an extend block     *)
(*   mws         the middleware declarations, [pkg, name]                  *)
(*   declared    the component names of the design's own types             *)
(*   kind        the family it belongs to, which has the methods its       *)
(*               author may add and how many                               *)
(*   docs        the paths ServeDocs may be asked to serve the docs at     *)
(***************************************************************************)
EXTENDS Routes

CONSTANTS Menus, Offers, MaxMethods,
          HealthPaths     \* the probe paths, one literal segment each

VARIABLES menu, methods,
          docs            \* the docs paths the running server holds

vars == <<menu, methods, docs>>

NoReq == { [name |-> <<>>, at |-> "none", arg |-> <<>>] }

Svc(m) == menu.svcs[m.svc]

TypeOK ==
  /\ menu \in Menus
  /\ Len(methods) <= MaxMethods[menu.kind]
  /\ Range(methods) \subseteq Offers[menu.kind]
  /\ docs \subseteq menu.docs

-----------------------------------------------------------------------------
(* Services, blocks and what a method inherits.                            *)

Indexes == DOMAIN methods

(* mergeServices: the primary's methods, then the extend block's.          *)
ServiceMethods(s) ==
  LET of(blk) == SelectSeq([i \in Indexes |-> i],
                           LAMBDA i : methods[i].svc = s /\ methods[i].blk = blk)
  IN  of("primary") \o of("extend")

Prefix(m) == Svc(m).prefix
Route(m) == Resolve(menu.base, Prefix(m), m)

(* blockOf: the primary before the extend block, by the method's name.     *)
Block(m) ==
  IF \E j \in Indexes : methods[j].svc = m.svc /\ methods[j].name = m.name /\ methods[j].blk = "primary"
    THEN "primary" ELSE "extend"

(* EffectiveGroup: the block's own @group, else the primary's.             *)
Group(m) ==
  IF Block(m) = "extend" /\ Svc(m).ext.group # <<>> THEN Svc(m).ext.group ELSE Svc(m).group

Hidden(m) == m.hidden \/ Svc(m).hidden \/ (Block(m) = "extend" /\ Svc(m).ext.hidden)

(* OutputSegment: the group, else the service's name as a file name.       *)
OutputSegment(m) == IF Group(m) # <<>> THEN Group(m) ELSE FileName(Svc(m).name)

(* InheritedDecorators for @middlewares, outermost first: the method's     *)
(* ignore drops what it inherits, its block's drops the service's.         *)
Chain(m) ==
  LET extended == Block(m) = "extend"
      ignored  == m.ignore \/ (extended /\ Svc(m).ext.ignore)
  IN  (IF ignored THEN <<>> ELSE Svc(m).mws)
        \o (IF extended /\ ~m.ignore THEN Svc(m).ext.mws ELSE <<>>)
        \o m.mws

-----------------------------------------------------------------------------
(* The analyser's checks: each holds when it reports an error.             *)

(* basePathRepeats and a segment ServeMux refuses.                         *)
Repeats(s) == \E i, j \in DOMAIN s : i # j /\ s[i] = s[j]
Common(s, t) == \E i \in DOMAIN s, j \in DOMAIN t : s[i] = t[j]
HasBad(rt) == \E i \in DOMAIN rt : SegmentProblem(rt[i])

checkBasePathPattern == HasBad(menu.base) \/ Repeats(Vars(menu.base))

checkPrefixPattern(s) ==
  LET prefix == menu.svcs[s].prefix
  IN  HasBad(prefix) \/ Repeats(Vars(prefix)) \/ Common(Vars(prefix), Vars(menu.base))

(* checkPathResolution's health check.                                     *)
checkHealthPath(m) ==
  \E h \in HealthPaths : Route(m) = << Lit(h) >>

checkRouteEnd(m) == \E i \in 1 .. (Len(Route(m)) - 1) : EndsRoute(Route(m)[i])

checkMethodPathSegments(m) == m.path # NoPath /\ HasBad(m.path)

checkDuplicatePathVars(m) ==
  /\ m.path # NoPath
  /\ \/ Repeats(Vars(m.path))
     \/ Common(Vars(m.path), Vars(menu.base))
     \/ Common(Vars(m.path), Vars(Prefix(m)))

IsBodyVerb(verb) == verb \in {"POST", "PUT", "PATCH"}

(* wire.RequestFieldBinding and wire.WireName, with the auto flag.         *)
RequestFieldBinding(m, f) ==
  LET bound(at, auto) ==
        [at |-> at, auto |-> auto, name |-> IF f.arg = <<>> THEN f.name ELSE f.arg]
  IN  CASE f.at # "" -> bound(f.at, FALSE)
        [] f.at = "" /\ Contains(Vars(Route(m)), f.name) -> bound("path", TRUE)
        [] OTHER -> IF IsBodyVerb(m.verb) THEN bound("body", FALSE) ELSE bound("query", TRUE)

(* requestPathFields, the variables the request's fields bind.             *)
PathFields(m) == {b \in {RequestFieldBinding(m, f) : f \in m.req} : b.at = "path"}

checkMethodPathParams(m) ==
  IF m.req = NoReq
    THEN Vars(Route(m)) # <<>> /\ ~m.raw
    ELSE \/ \E b \in PathFields(m) : ~b.auto /\ ~Contains(Vars(Route(m)), b.name)
         \/ \E i \in DOMAIN Vars(Route(m)) :
              ~\E b \in PathFields(m) : b.name = Vars(Route(m))[i]

(* checkDuplicateWireNames and checkDuplicateAutoWireNames: two fields of  *)
(* a request bound to one name at one place.                               *)
checkDuplicateWireNames(m) ==
  /\ m.req # NoReq
  /\ \E f, g \in m.req :
       /\ f # g
       /\ LET a == RequestFieldBinding(m, f)
              b == RequestFieldBinding(m, g)
          IN  a.at # "body" /\ a.at = b.at /\ a.name = b.name

SameShape(m, o) == m.verb = o.verb /\ Shape(Route(m)) = Shape(Route(o))

checkServiceMethods(i) ==
  \E j \in 1 .. (i - 1) : /\ methods[j].svc = methods[i].svc
                          /\ methods[j].name = methods[i].name \/ SameShape(methods[j], methods[i])

(* checkProjectPathCollision: a shape another service binds, or a pair of  *)
(* one verb whose patterns conflict.                                       *)
checkPathCollision(i, j) ==
  LET Collide(m, o) ==
        \/ m.svc # o.svc /\ SameShape(m, o)
        \/ m.verb = o.verb /\ Shape(Route(m)) # Shape(Route(o)) /\ PatternsConflict(Route(m), Route(o))
  IN  Collide(methods[i], methods[j])

(* checkProjectGroupChecks.                                                *)
Sharing(i, j) == i # j /\ OutputSegment(methods[i]) = OutputSegment(methods[j])

reportGroupPackageStraddle(i, j) == Sharing(i, j) /\ Svc(methods[i]).pkg # Svc(methods[j]).pkg

reportGroupMemberCollisions(i, j) ==
  Sharing(i, j) /\ methods[i].svc # methods[j].svc /\ methods[i].name = methods[j].name

reportMethodNameClashes_files(i) ==
  \/ GoFileProblem(FileName(methods[i].name), menu.fileCase)
  \/ methods[i].name = LogicEmbed
  \/ \E j \in Indexes : /\ Sharing(i, j) /\ methods[i].name # methods[j].name
                        /\ FileName(methods[i].name) = FileName(methods[j].name)
reportMethodNameClashes(i) ==
  \/ GoFileProblem(FileName(methods[i].name), menu.fileCase)
  \/ methods[i].name = LogicEmbed
  \/ \E j \in Indexes :
       /\ Sharing(i, j) /\ methods[i].name # methods[j].name
       /\ \/ FileName(methods[i].name) = FileName(methods[j].name)
          \/ methods[j].name = LogicRival(methods[i].name)

(* checkMiddlewareRef: a qualified name in its package, a bare one in the  *)
(* method's own package or in any.                                         *)
Declares(pkg, name) == [pkg |-> pkg, name |-> name] \in menu.mws
MiddlewareDeclared(ref) ==
  IF ref.pkg # "" THEN Declares(ref.pkg, ref.name) ELSE \E d \in menu.mws : d.name = ref.name
checkMiddlewareRef(m) ==
  \E ref \in Range(Svc(m).mws) \cup Range(Svc(m).ext.mws) \cup Range(m.mws) : ~MiddlewareDeclared(ref)

checkMiddlewareUniqueness_file ==
  \E d, e \in menu.mws : d.name # e.name /\ MiddlewareFileName(d.name) = MiddlewareFileName(e.name)
checkMiddlewareUniqueness ==
  \E d, e \in menu.mws :
    d # e /\ (d.name = e.name \/ MiddlewareFileName(d.name) = MiddlewareFileName(e.name))

-----------------------------------------------------------------------------
(* Operation ids and component stems.                                      *)

MethodNameCount(name) == Cardinality({i \in Indexes : methods[i].name = name})

OperationBaseName(m) == IF MethodNameCount(m.name) >= 2 THEN Svc(m).name \o m.name ELSE m.name
OperationID(m) == IF m.opid # <<>> THEN m.opid ELSE OperationBaseName(m)

checkOperationIDUniqueness(i, j) ==
  /\ i # j /\ ~Hidden(methods[i]) /\ ~Hidden(methods[j])
  /\ OperationID(methods[i]) = OperationID(methods[j])

(* The order of the document: by service key, the service's package and    *)
(* name, then as merged.  The menus list services in key order.            *)
DocOrder == FlattenSeq([s \in DOMAIN menu.svcs |-> ServiceMethods(s)])

Owners(m) ==
  Cardinality({j \in Indexes : Svc(methods[j]).name = Svc(m).name /\ methods[j].name = m.name})
Stem(m) ==
  IF Owners(m) >= 2 THEN << Svc(m).pkg >> \o OperationBaseName(m) ELSE OperationBaseName(m)

Numerals == <<"1", "2", "3", "4", "5">>

(* operations: of those sharing a stem the one whose id it is, else the    *)
(* first, keeps it; each other takes the lowest number no operation and no *)
(* declared body component holds.  Stems are renumbered one at a time, so  *)
(* a number once taken stays so, and the order of stems does not matter.   *)
Taken(stems, name) ==
  \/ \E i \in DOMAIN stems : stems[i] = name
  \/ name \o <<"ReqBody">> \in menu.declared \/ name \o <<"RespBody">> \in menu.declared

Keeper(stems, order, stem) ==
  LET sharing == SelectSeq(order, LAMBDA i : stems[i] = stem)
      named   == SelectSeq(sharing, LAMBDA i : OperationID(methods[i]) = stem)
  IN  IF named # <<>> THEN named[1] ELSE sharing[1]

Renumber_from2(stems, i) == [stems EXCEPT ![i] = @ \o <<"2">>]
Renumber(stems, i) ==
  LET free == {n \in 2 .. Len(Numerals) : ~Taken(stems, stems[i] \o << Numerals[n] >>)}
      n    == CHOOSE k \in free : \A l \in free : k <= l
  IN  [stems EXCEPT ![i] = @ \o << Numerals[n] >>]

Stems ==
  LET plain == <<>> \o [i \in Indexes |-> Stem(methods[i])]
      order == <<>> \o DocOrder
      moved == SelectSeq(order, LAMBDA i : Keeper(plain, order, plain[i]) # i)
  IN  FoldLeft(Renumber, plain, moved)

-----------------------------------------------------------------------------
(* AnalyzeProject's verdict on the design.                                 *)

AnalyzeProject ==
  /\ ~checkBasePathPattern
  /\ ~checkMiddlewareUniqueness
  /\ \A s \in DOMAIN menu.svcs : ~checkPrefixPattern(s)
  /\ \A i \in Indexes :
       LET m == methods[i]
       IN  /\ ~checkHealthPath(m) /\ ~checkRouteEnd(m) /\ ~checkMethodPathSegments(m)
           /\ ~checkDuplicatePathVars(m) /\ ~checkMethodPathParams(m)
           /\ ~checkDuplicateWireNames(m) /\ ~checkMiddlewareRef(m)
           /\ ~checkServiceMethods(i) /\ ~reportMethodNameClashes(i)
  /\ \A i, j \in Indexes :
       i < j => /\ ~checkPathCollision(i, j)
                /\ ~reportGroupPackageStraddle(i, j) /\ ~reportGroupMemberCollisions(i, j)
                /\ ~checkOperationIDUniqueness(i, j)

-----------------------------------------------------------------------------
(* What the Go target writes and registers.                                *)

Segments == {OutputSegment(m) : m \in Range(methods)}

(* generateRoutes writes each package's directories in turn, in package    *)
(* order, so of two packages writing one directory the last is read.       *)
LastWriter(dir) ==
  LET writing == {s \in DOMAIN menu.svcs : \E m \in Range(methods) : m.svc = s /\ OutputSegment(m) = dir}
  IN  menu.svcs[CHOOSE s \in writing : \A t \in writing : t <= s].pkg

(* generateRoutesForSegment: the routes file of a directory holds the      *)
(* methods its package puts there, each with the pattern of ServePath.     *)
RoutesFile(dir) ==
  LET writer == LastWriter(dir)
  IN  {i \in Indexes : OutputSegment(methods[i]) = dir /\ Svc(methods[i]).pkg = writer}

(* RegisterAll calls each directory's RegisterRoutes once.                 *)
Registered == UNION {RoutesFile(dir) : dir \in Segments}
Entry(i) == [verb |-> methods[i].verb, path |-> ServePath(menu.base, Prefix(methods[i]), methods[i])]
Entries == {Entry(i) : i \in Registered}

(* middlewareNames: the chain without qualifiers, each name once.          *)
middlewareNames(m) ==
  FoldLeft(LAMBDA names, ref : IF Contains(names, ref.name) THEN names ELSE Append(names, ref.name),
           <<>>, Chain(m))

(* projectMiddlewares and middlewareGuards: the fields of Middlewares and  *)
(* the ones Wire refuses to start without.                                 *)
MiddlewareFields == {d.name : d \in menu.mws}
middlewareGuards == UNION {Range(middlewareNames(methods[i])) : i \in Registered}

-----------------------------------------------------------------------------
(* What the document says.                                                 *)

Shown == {i \in Indexes : ~Hidden(methods[i])}

(* addPaths keys an operation by its verb and path below the basePath.     *)
DocPath(m) == OpenAPIPath(Resolve(<<>>, Prefix(m), m))
SharedPath ==
  \E i, j \in Shown : i # j /\ methods[i].verb = methods[j].verb /\ DocPath(methods[i]) = DocPath(methods[j])

HasReqBody(m) ==
  m.req # NoReq /\ IsBodyVerb(m.verb) /\ \E f \in m.req : RequestFieldBinding(m, f).at = "body"
Components(i, stems) ==
  (IF HasReqBody(methods[i]) THEN {stems[i] \o <<"ReqBody">>} ELSE {})
    \cup (IF methods[i].resp /\ methods[i].verb # "HEAD" THEN {stems[i] \o <<"RespBody">>} ELSE {})

(* schemaNames.put: a component name already taken stops the document.     *)
DuplicateComponent ==
  LET stems == Stems
  IN  \E i \in Shown : \/ Components(i, stems) \cap menu.declared # {}
                       \/ \E j \in Shown \ {i} : Components(i, stems) \cap Components(j, stems) # {}

Documented == ~SharedPath /\ ~DuplicateComponent

(* requestSide: the path parameters of an operation, its fields bound to a *)
(* variable of its own route, or every variable of a raw one's.            *)
PathParams(m) ==
  LET own == Vars(Resolve(<<>>, Prefix(m), m))
  IN  IF m.req = NoReq THEN (IF m.raw THEN Range(own) ELSE {})
      ELSE {b.name : b \in {c \in PathFields(m) : Contains(own, c.name)}}

(* splitServerBound: the fields left to the server's variables.            *)
ServerBound(m) ==
  IF m.req = NoReq THEN {}
  ELSE {b.name : b \in {c \in PathFields(m) : ~Contains(Vars(Resolve(<<>>, Prefix(m), m)), c.name)}}

(* The URL a reader of the document calls: the server's path and the       *)
(* operation's, a value none of the design's literals spells for each      *)
(* variable.                                                               *)
CalledPath(m, fresh) ==
  LET url == menu.base \o DocPath(m)
  IN  [i \in DOMAIN url |-> IF url[i].k = "lit" THEN url[i].n ELSE fresh]

-----------------------------------------------------------------------------
(* The running server: its generated routes, then the docs it serves.      *)

DocsEntries == {[verb |-> "GET", path |-> p] : p \in docs}

(* docsPathFree: not a path the mux refuses, nor a probe's, nor in conflict *)
(* with the pattern that serves a GET of it now.                           *)
docsPathFree(path) ==
  LET asked == [i \in DOMAIN path |-> IF path[i].k = "rest" THEN <<>> ELSE path[i].n]
  IN  /\ ~MuxRefuses(path)
      /\ \A h \in HealthPaths : path # << Lit(h) >>
      /\ \A e \in RoutedTo("GET", asked, Entries \cup DocsEntries) :
           ~MuxRefusesPair(e, [verb |-> "GET", path |-> path])

-----------------------------------------------------------------------------
Init == menu \in Menus /\ methods = <<>> /\ docs = {}

(* The author adds a method.                                               *)
AddMethod ==
  /\ docs = {}
  /\ Len(methods) < MaxMethods[menu.kind]
  /\ \E m \in Offers[menu.kind] \ Range(methods) : methods' = Append(methods, m)
  /\ UNCHANGED <<menu, docs>>

(* ServeDocs, on a server generated from a design AnalyzeProject accepts.  *)
ServeDocs ==
  /\ docs = {} /\ menu.docs # {} /\ AnalyzeProject
  /\ \E spec, page \in menu.docs :
       /\ spec # page
       /\ docsPathFree(page) /\ docsPathFree(spec)
       /\ docs' = {spec, page}
  /\ UNCHANGED <<menu, methods>>

Next == AddMethod \/ ServeDocs

Spec == Init /\ [][Next]_vars

-----------------------------------------------------------------------------
(* The designs the analyser accepts and the mux does not.  checkRouteEnd   *)
(* looks at the resolved route while ServePath ends a root route with {$}: *)
(* under a basePath that ends the route that is one segment too many.  And *)
(* of two routes, checkProjectPathCollision compares only one verb with    *)
(* itself, though GET serves HEAD, and only routes of one length, though   *)
(* {name...} matches any and the root route is served as {$}.              *)
Ending(path) == path # <<>> /\ EndsRoute(path[Len(path)])
RootPastEnd(m) == Ending(menu.base) /\ Resolve(<<>>, Prefix(m), m) = <<>>
NotCompared(m, o) ==
  \/ {m.verb, o.verb} = {"GET", "HEAD"}
  \/ Len(Route(m)) # Len(Route(o)) /\ (Ending(Route(m)) \/ Ending(Route(o)))

(* A design the analyser accepts starts: ServeMux refuses no pattern the   *)
(* generated RegisterAll hands it and no pair of them, and no docs path    *)
(* docsPathFree lets through (route.PatternsConflict, checkRouteEnd,       *)
(* checkDuplicatePathVars and checkProjectPathCollision against what the   *)
(* mux matches).  What it refuses is one of the exceptions above.          *)
MuxAccepts ==
  /\ TypeOK
  /\ \A i \in Registered : MuxRefuses(Entry(i).path) => RootPastEnd(methods[i])
  /\ \A i, j \in Registered :
       i < j /\ MuxRefusesPair(Entry(i), Entry(j)) => NotCompared(methods[i], methods[j])
  /\ \A i \in Registered, d \in DocsEntries : MuxRefusesPair(Entry(i), d) => methods[i].verb = "HEAD"

(* The document describes the server: the URL it gives for an operation,   *)
(* with a value of its own for each variable, is answered by that method's *)
(* handler, not by a probe or another route, and its path parameters are   *)
(* exactly the variables of its template, the basePath's being the         *)
(* server's (addPaths, serverPath, splitServerBound against ServePath).    *)
(* Every variable reaches the method: one request field binds it, or the   *)
(* request is raw (checkMethodPathParams, checkDuplicateWireNames).        *)
DocumentedReaches ==
  Documented /\ (\A i \in Registered : ~MuxRefuses(Entry(i).path)) =>
    \A i \in Shown :
      LET m   == methods[i]
          url == <<>> \o CalledPath(m, Fresh)
      IN  /\ RoutedTo(m.verb, url, Entries) = {Entry(i)}
          /\ Len(url) = 1 => url[1] \notin HealthPaths
          /\ PathParams(m) = Range(Vars(DocPath(m)))
          /\ ServerBound(m) \subseteq Range(Vars(menu.base))
          /\ m.req # NoReq =>
               \A v \in Range(Vars(Route(m))) :
                 Cardinality({f \in m.req : RequestFieldBinding(m, f).at = "path"
                                            /\ RequestFieldBinding(m, f).name = v}) = 1
          /\ m.req = NoReq /\ Vars(Route(m)) # <<>> => m.raw

(* Nothing a method generates is lost or compiled away: it is registered,  *)
(* and in its directory, one Go package, no other method writes its file   *)
(* or declares one of its names, and go builds the file.                   *)
OutputsApart ==
  /\ Registered = Indexes
  /\ \A i \in Indexes :
       LET m == methods[i]
       IN  /\ ~(menu.fileCase = "snake" /\ Len(FileName(m.name)) > 1
                  /\ FileName(m.name)[Len(FileName(m.name))] \in GoFileWords)
           /\ \A j \in Indexes \ {i} :
                OutputSegment(m) = OutputSegment(methods[j]) =>
                  /\ Svc(m).pkg = Svc(methods[j]).pkg
                  /\ FileName(m.name) # FileName(methods[j].name)
                  /\ m.name # methods[j].name
                  /\ {LogicTypeName(m.name), LogicConstructorName(m.name)}
                       \cap {LogicTypeName(methods[j].name), LogicConstructorName(methods[j].name)} = {}

(* The document names each operation and each body once: no two shown      *)
(* operations share an id, no two operations a component stem, and a       *)
(* numbered stem never takes a component name the design declares.         *)
DocNamesApart ==
  LET stems == Stems
  IN  /\ \A i, j \in Shown : i # j => OperationID(methods[i]) # OperationID(methods[j])
      /\ \A i, j \in Indexes : i # j => stems[i] # stems[j]
      /\ \A i \in Shown : stems[i] # Stem(methods[i]) => Components(i, stems) \cap menu.declared = {}

(* Each route runs the middlewares its design names: every name of its     *)
(* chain is a field of the generated Middlewares that Wire guards, and is  *)
(* declared once, by the package a qualified reference means.              *)
ChainIsWired ==
  \A i \in Registered :
    /\ Range(middlewareNames(methods[i])) \subseteq MiddlewareFields \cap middlewareGuards
    /\ \A ref \in Range(Chain(methods[i])) :
         LET named == {d \in menu.mws : d.name = ref.name}
         IN  /\ Cardinality(named) = 1
             /\ ref.pkg # "" => \A d \in named : d.pkg = ref.pkg

(* AnalyzeProject refuses every design of which one of these fails.        *)
Sound ==
  AnalyzeProject => MuxAccepts /\ DocumentedReaches /\ OutputsApart /\ DocNamesApart /\ ChainIsWired
=============================================================================
