------------------------------ MODULE SpecClosure ------------------------------
(***************************************************************************)
(* spec_from_files (src/src/spec.rs): a root module and everything that it *)
(* reaches by EXTENDS and INSTANCE, breadth first, each file once.         *)
(*                                                                         *)
(* A world is what the call finds in the file system, which is taken not   *)
(* to change during it: [root, search, library, entry, dir, text,          *)
(* readable].  Files are canonical paths: entry[d, name] is the file that  *)
(* the path d/name.tla leads to, links followed, or no file: Absent,       *)
(* Dangling or Unresolvable.                                               *)
(***************************************************************************)
EXTENDS Integers, Sequences, FiniteSets

CONSTANTS
    Files, Dirs, Names,
    Absent,         \* no such path
    Dangling,       \* a link that leads nowhere: `exists` follows it, and is false
    Unresolvable,   \* it exists, and canonicalize fails: gone by then, or too long
    Worlds,
    Texts, ImportsOf(_)     \* the modules that a text names, in order

NotThere == {Absent, Dangling}
NoFile == NotThere \cup {Unresolvable}

Request == Dirs \X Names

ASSUME NoFileIsAFile == NoFile \cap Files = {}
ASSUME WorldsAreFileSystems ==
    Worlds \subseteq [root : Files \cup NoFile, search : SUBSET Dirs, library : SUBSET Dirs,
                      entry : [Request -> Files \cup NoFile], dir : [Files -> Dirs],
                      text : [Files -> Texts], readable : SUBSET Files]
ASSUME ImportsAreNames == \A t \in Texts : ImportsOf(t) \in Seq(Names)

VARIABLES
    world,
    sources,        \* the files read, in the order of their texts in the result
    visited,        \* files resolved so far
    queue,          \* imports still to be resolved: <<importing directory, name>>
    result          \* "none", "ok", or the reason of the failure

progress == <<sources, visited, queue>>
vars == <<world, progress, result>>

-----------------------------------------------------------------------------
\* Explicit directories, or those of TLA_LIBRARY_PATH.
SearchDirs == IF world.search = {} THEN world.library ELSE world.search

\* The candidates that exist: a link that leads nowhere is passed over.
Found(request) ==
    {world.entry[d, request[2]] : d \in {request[1]} \cup SearchDirs} \ NotThere

\* resolve_module: exactly one file, under however many paths.
Resolves(request) == \E f \in Files : Found(request) = {f}
Target(request)   == CHOOSE f \in Files : Found(request) = {f}

Imports(f) == ImportsOf(world.text[f])

\* A file's imports are looked for beside it.
Requests_BesideRoot(f) ==
    [k \in 1..Len(Imports(f)) |-> <<world.dir[world.root], Imports(f)[k]>>]
Requests(f) == [k \in 1..Len(Imports(f)) |-> <<world.dir[f], Imports(f)[k]>>]

-----------------------------------------------------------------------------
Init ==
    /\ world \in Worlds
    /\ sources = <<>> /\ visited = {} /\ queue = <<>> /\ result = "none"

Fail(reason) == result' = reason /\ UNCHANGED <<world, progress>>

Started == sources # <<>>

ReadRoot ==
    /\ result = "none" /\ ~Started
    /\ IF world.root \in NoFile THEN Fail("no_root")
       ELSE IF world.root \notin world.readable THEN Fail("unreadable")
       ELSE /\ sources' = <<world.root>> /\ visited' = {world.root}
            /\ queue' = Requests(world.root)
            /\ UNCHANGED <<world, result>>

\* An import of a file that was visited already.
Skipped_Kept == queue
Skipped == Tail(queue)

Enqueued_First(requests) == requests \o Tail(queue)
Enqueued(requests) == Tail(queue) \o requests

\* The file is visited before it is read.
Read(f) ==
    /\ visited' = visited \cup {f}
    /\ IF f \notin world.readable
       THEN result' = "unreadable" /\ UNCHANGED <<world, sources, queue>>
       ELSE /\ sources' = Append(sources, f)
            /\ queue' = Enqueued(Requests(f))
            /\ UNCHANGED <<world, result>>

TakeImport ==
    /\ result = "none" /\ Started /\ queue # <<>>
    /\ IF ~Resolves(Head(queue))
       THEN Fail(IF Found(Head(queue)) = {} THEN "not_found"
                 ELSE IF Unresolvable \in Found(Head(queue)) THEN "unresolvable" ELSE "ambiguous")
       ELSE LET f == Target(Head(queue)) IN
            IF f \in visited THEN queue' = Skipped /\ UNCHANGED <<world, sources, visited, result>>
            ELSE Read(f)

Finish ==
    /\ result = "none" /\ Started /\ queue = <<>>
    /\ result' = "ok"
    /\ UNCHANGED <<world, progress>>

Next == ReadRoot \/ TakeImport \/ Finish

\* A sequential call: it keeps running.
Spec == Init /\ [][Next]_vars /\ WF_vars(Next)

-----------------------------------------------------------------------------
(***************************************************************************)
(* Properties.                                                             *)
(***************************************************************************)
\* Reference: what a name means in a file, and whether it means one file.  A
\* broken link is no meaning, so a file behind it in the search is found.
Meanings(f, n) ==
    {world.entry[d, n] :
        d \in {world.dir[f]} \cup (IF world.search # {} THEN world.search ELSE world.library)}
    \ {Absent, Dangling}

Means(f, n, g) == Meanings(f, n) = {g} /\ g \in Files

ImportedBy(f) == {ImportsOf(world.text[f])[k] : k \in 1..Len(ImportsOf(world.text[f]))}

\* A set of files in which every import that means a file stays.
Closed(S) == \A f \in S, g \in Files : (\E n \in ImportedBy(f) : Means(f, n, g)) => g \in S

Wanted(f) == \A n \in ImportedBy(f) : \E g \in Files : Means(f, n, g)

ToFiles == {sources[i] : i \in 1..Len(sources)}

\* "Read a root TLA+ module and its complete EXTENDS/INSTANCE closure ... with
\* canonical-path deduplication": no file is read that the root does not reach,
\* none is read twice, and a result has everything, cycles and links included.
\* A failure is one of the closure: an import that does not resolve, or a file
\* that cannot be read, among what the root reaches.
ClosureIsLeast ==
    /\ \A S \in SUBSET Files : world.root \in S /\ Closed(S) => visited \subseteq S
    /\ \A i, j \in 1..Len(sources) : sources[i] = sources[j] => i = j
    /\ result = "ok" =>
        /\ ToFiles = visited /\ world.root \in visited
        /\ Closed(visited) /\ visited \subseteq world.readable
        /\ \A f \in visited : Wanted(f)
    /\ result \in {"not_found", "ambiguous", "unresolvable"} => \E f \in visited : ~Wanted(f)
    /\ result = "unreadable" => ~(visited \cup {world.root} \subseteq world.readable)

\* "Sources are breadth-first with the root first": files come in the order in
\* which the files before them first import them.
Calls(j) ==
    UNION {{<<i, k>> : k \in {m \in 1..Len(ImportsOf(world.text[sources[i]])) :
                Means(sources[i], ImportsOf(world.text[sources[i]])[m], sources[j])}} :
             i \in 1..Len(sources)}

Earlier(p, q) == p[1] < q[1] \/ (p[1] = q[1] /\ p[2] < q[2])

ClosureIsBreadthFirst ==
    /\ Started => sources[1] = world.root
    /\ \A j \in 2..Len(sources) :
          \E p \in Calls(j) :
             /\ p[1] < j
             /\ j > 2 => \E q \in Calls(j - 1) :
                    /\ Earlier(q, p)
                    /\ \A r \in Calls(j) : ~Earlier(r, p)

\* Whatever the imports, cyclic ones included, the call returns.
ClosureEnds == <>(result # "none")
=============================================================================
