-------------------------- MODULE SpecClosure_proofs --------------------------
(***************************************************************************)
(* The closure that spec_from_files returns is the least one, for every    *)
(* file system, every search path and every scanner of imports.            *)
(*                                                                         *)
(* The argument is that of a graph search: what is queued was imported by  *)
(* a visited file (nothing too much), and what a visited file imports is   *)
(* visited or still queued (nothing too little), until the queue is empty. *)
(* For the order: the queue holds, in the order of the sources, what they  *)
(* import and no source answers yet.                                       *)
(***************************************************************************)
EXTENDS SpecClosure, SequenceTheorems, TLAPS

Results == {"none", "ok", "no_root", "unreadable", "not_found", "unresolvable", "ambiguous"}

TypeOK ==
    /\ world \in Worlds
    /\ sources \in Seq(Files) /\ visited \subseteq Files
    /\ queue \in Seq(Request) /\ result \in Results

Going == result \in {"none", "ok"}

Queued(r) == \E i \in 1..Len(queue) : queue[i] = r

Asked(f, n) == <<world.dir[f], n>>

\* Nothing too much.
QueueIsImported ==
    \A i \in 1..Len(queue) : \E f \in visited : \E n \in ImportedBy(f) : queue[i] = Asked(f, n)

Sound == \A S \in SUBSET Files : world.root \in S /\ Closed(S) => visited \subseteq S

\* Nothing too little.
Complete ==
    Going => \A f \in visited : \A n \in ImportedBy(f) :
                Queued(Asked(f, n)) \/ \E g \in visited : Means(f, n, g)

SourcesAreVisited ==
    /\ ToFiles \subseteq visited
    /\ \A i, j \in 1..Len(sources) : sources[i] = sources[j] => i = j
    /\ Going => visited = ToFiles /\ visited \subseteq world.readable
    /\ result = "ok" => Started /\ queue = <<>>
    /\ Started => world.root \in visited

FailuresAreReal ==
    /\ result \in {"not_found", "ambiguous", "unresolvable"} => \E f \in visited : ~Wanted(f)
    /\ result = "unreadable" => ~(visited \cup {world.root} \subseteq world.readable)

Inductive ==
    TypeOK /\ QueueIsImported /\ Sound /\ Complete /\ SourcesAreVisited /\ FailuresAreReal
-----------------------------------------------------------------------------
(***************************************************************************)
(* Lemmas about one state of the file system.                              *)
(***************************************************************************)
\* A world has its types.
LEMMA WorldTypes ==
  ASSUME world \in Worlds
  PROVE  /\ world.root \in Files \cup NoFile
         /\ world.search \subseteq Dirs /\ world.library \subseteq Dirs
         /\ world.entry \in [Request -> Files \cup NoFile]
         /\ world.dir \in [Files -> Dirs]
         /\ world.text \in [Files -> Texts]
         /\ world.readable \subseteq Files
  BY WorldsAreFileSystems

\* The imports of a file are names.
LEMMA ImportTypes ==
  ASSUME world \in Worlds, NEW f \in Files
  PROVE  /\ Imports(f) \in Seq(Names)
         /\ ImportedBy(f) = {Imports(f)[k] : k \in 1..Len(Imports(f))}
         /\ ImportedBy(f) \subseteq Names
<1>1. Imports(f) \in Seq(Names)
  BY WorldTypes, ImportsAreNames DEF Imports
<1>2. ImportedBy(f) = {Imports(f)[k] : k \in 1..Len(Imports(f))}
  BY DEF Imports, ImportedBy
<1>. QED  BY <1>1, <1>2, ElementOfSeq

\* What a file asks for when it is read: its imports, beside it.
LEMMA RequestTypes ==
  ASSUME world \in Worlds, NEW f \in Files
  PROVE  /\ Requests(f) \in Seq(Request)
         /\ Len(Requests(f)) = Len(Imports(f))
         /\ \A k \in 1..Len(Requests(f)) : Requests(f)[k] = Asked(f, Imports(f)[k])
<1>1. Imports(f) \in Seq(Names) /\ Len(Imports(f)) \in Nat
  BY ImportTypes, LenProperties
<1>2. \A k \in 1..Len(Imports(f)) : Imports(f)[k] \in Names
  BY <1>1, ElementOfSeq
<1>3. world.dir[f] \in Dirs
  BY WorldTypes
<1>4. Requests(f) \in [1..Len(Imports(f)) -> Request]
  BY <1>2, <1>3 DEF Requests, Request
<1>5. Requests(f) \in Seq(Request) /\ Len(Requests(f)) = Len(Imports(f))
  BY <1>1, <1>4, SeqDef, LenProperties
<1>. QED  BY <1>5 DEF Requests, Asked

\* The search for a module gives what its name means in the importing file.
LEMMA SearchAgrees ==
  ASSUME NEW f, NEW n
  PROVE  Found(Asked(f, n)) = Meanings(f, n)
  BY DEF Found, Asked, Meanings, SearchDirs, NotThere

\* A search that succeeds gives a file that the name means, and one that fails
\* leaves the name without a meaning.
LEMMA ResolutionIsMeaning ==
  ASSUME NEW f, NEW n
  PROVE  /\ Resolves(Asked(f, n)) =>
              /\ Target(Asked(f, n)) \in Files
              /\ Means(f, n, Target(Asked(f, n)))
         /\ ~Resolves(Asked(f, n)) => \A g \in Files : ~Means(f, n, g)
  BY SearchAgrees DEF Resolves, Target, Means

-----------------------------------------------------------------------------
(***************************************************************************)
(* The search begins.                                                      *)
(***************************************************************************)
\* The invariant holds before anything is read.
LEMMA InitInductive == Init => Inductive
<1>. SUFFICES ASSUME Init PROVE Inductive
  OBVIOUS
<1>1. sources = <<>> /\ visited = {} /\ queue = <<>> /\ result = "none" /\ world \in Worlds
  BY DEF Init
<1>2. Len(sources) = 0 /\ Len(queue) = 0
  BY <1>1
<1>3. TypeOK
  BY <1>1 DEF TypeOK, Results
<1>4. QueueIsImported /\ Sound /\ Complete
  BY <1>1, <1>2 DEF QueueIsImported, Sound, Complete
<1>5. SourcesAreVisited
  BY <1>1, <1>2 DEF SourcesAreVisited, ToFiles, Started
<1>6. FailuresAreReal
  BY <1>1 DEF FailuresAreReal
<1>. QED  BY <1>3, <1>4, <1>5, <1>6 DEF Inductive

-----------------------------------------------------------------------------
(***************************************************************************)
(* An import is taken from the queue.                                      *)
(***************************************************************************)
\* Taking the first of a queue and adding others loses and invents nothing.
LEMMA QueueMoves ==
  ASSUME queue \in Seq(Request), queue # <<>>, NEW rs \in Seq(Request)
  PROVE  /\ Tail(queue) \o rs \in Seq(Request)
         /\ \A i \in 1..Len(Tail(queue) \o rs) :
               \/ \E j \in 1..Len(queue) : (Tail(queue) \o rs)[i] = queue[j]
               \/ \E k \in 1..Len(rs) : (Tail(queue) \o rs)[i] = rs[k]
         /\ \A j \in 1..Len(queue) :
               queue[j] = Head(queue) \/ \E i \in 1..Len(Tail(queue) \o rs) : (Tail(queue) \o rs)[i] = queue[j]
         /\ \A k \in 1..Len(rs) : \E i \in 1..Len(Tail(queue) \o rs) : (Tail(queue) \o rs)[i] = rs[k]
<1>. DEFINE t == Tail(queue)
            moved == t \o rs
<1>1. /\ t \in Seq(Request) /\ Len(t) = Len(queue) - 1 /\ Len(queue) \in Nat \ {0}
      /\ \A i \in 1..Len(t) : t[i] = queue[i + 1]
  BY HeadTailProperties, EmptySeq
<1>2. Len(rs) \in Nat
  BY LenProperties
<1>3. /\ moved \in Seq(Request) /\ Len(moved) = Len(t) + Len(rs)
      /\ \A i \in 1..(Len(t) + Len(rs)) : moved[i] = IF i <= Len(t) THEN t[i] ELSE rs[i - Len(t)]
  BY <1>1, ConcatProperties
<1>4. Head(queue) = queue[1]
  OBVIOUS
<1>. HIDE DEF t, moved
<1>5. ASSUME NEW i \in 1..Len(moved)
      PROVE  \/ \E j \in 1..Len(queue) : moved[i] = queue[j]
             \/ \E k \in 1..Len(rs) : moved[i] = rs[k]
  <2>1. CASE i <= Len(t)
    <3>1. i \in 1..Len(t)
      BY <1>1, <1>2, <1>3, <1>5, <2>1
    <3>2. i \in 1..(Len(t) + Len(rs)) /\ i + 1 \in 1..Len(queue)
      BY <1>1, <1>3, <1>5, <3>1
    <3>3. moved[i] = t[i]
      BY <1>3, <2>1, <3>2
    <3>4. moved[i] = queue[i + 1]
      BY <1>1, <3>1, <3>3
    <3>. QED  BY <3>2, <3>4
  <2>2. CASE ~(i <= Len(t))
    <3>1. i \in 1..(Len(t) + Len(rs)) /\ Len(t) \in Nat
      BY <1>1, <1>3, <1>5
    <3>2. i - Len(t) \in 1..Len(rs)
      BY <1>2, <2>2, <3>1
    <3>3. moved[i] = rs[i - Len(t)]
      BY <1>3, <2>2, <3>1
    <3>. QED  BY <3>2, <3>3
  <2>. QED  BY <2>1, <2>2
<1>6. ASSUME NEW j \in 1..Len(queue), queue[j] # Head(queue)
      PROVE  \E i \in 1..Len(moved) : moved[i] = queue[j]
  <2>1. j - 1 \in 1..Len(t)
    BY <1>1, <1>4, <1>6
  <2>2. moved[j - 1] = queue[j] /\ j - 1 \in 1..Len(moved)
    BY <1>1, <1>2, <1>3, <2>1
  <2>. QED  BY <2>2
<1>7. ASSUME NEW k \in 1..Len(rs)
      PROVE  \E i \in 1..Len(moved) : moved[i] = rs[k]
  <2>. DEFINE i == Len(t) + k
  <2>1. /\ i \in 1..(Len(t) + Len(rs)) /\ ~(i <= Len(t)) /\ i - Len(t) = k
        /\ i \in 1..Len(moved)
    BY <1>1, <1>2, <1>3, <1>7
  <2>2. moved[i] = rs[i - Len(t)]
    BY <1>3, <2>1
  <2>. QED  BY <2>1, <2>2
<1>. QED  BY <1>3, <1>5, <1>6, <1>7 DEF t, moved

\* Nothing that depends on the world alone changes.
LEMMA WorldStays ==
  ASSUME world' = world
  PROVE  /\ \A f, n, g : Means(f, n, g)' <=> Means(f, n, g)
         /\ \A f : ImportedBy(f)' = ImportedBy(f)
         /\ \A f, n : Asked(f, n)' = Asked(f, n)
         /\ \A f : Wanted(f)' <=> Wanted(f)
         /\ \A S : Closed(S)' <=> Closed(S)
<1>1. \A f, n, g : Means(f, n, g)' <=> Means(f, n, g)
  BY DEF Means, Meanings
<1>2. \A f : ImportedBy(f)' = ImportedBy(f)
  BY DEF ImportedBy
<1>3. \A f, n : Asked(f, n)' = Asked(f, n)
  BY DEF Asked
<1>. QED  BY <1>1, <1>2, <1>3 DEF Wanted, Closed

\* The next import is one that a visited file makes.
LEMMA HeadIsImported ==
  ASSUME Inductive, queue # <<>>
  PROVE  \E f \in visited : \E n \in ImportedBy(f) : Head(queue) = Asked(f, n)
<1>1. Len(queue) \in Nat \ {0} /\ Head(queue) = queue[1]
  BY EmptySeq DEF Inductive, TypeOK
<1>. QED  BY <1>1 DEF Inductive, QueueIsImported

\* A failure leaves everything but the result.
LEMMA FailInductive ==
  ASSUME Inductive, NEW reason \in Results \ {"none", "ok"}, Fail(reason),
         reason \in {"not_found", "ambiguous", "unresolvable"} => \E f \in visited : ~Wanted(f),
         reason = "unreadable" => ~(visited \cup {world.root} \subseteq world.readable)
  PROVE  Inductive'
<1>1. world' = world /\ sources' = sources /\ visited' = visited /\ queue' = queue /\ result' = reason
  BY DEF Fail, progress
<1>2. TypeOK'
  BY <1>1 DEF Inductive, TypeOK
<1>3. QueueIsImported' /\ Sound'
  BY <1>1, WorldStays DEF Inductive, QueueIsImported, Sound
<1>4. Complete'
  BY <1>1 DEF Complete, Going
<1>5. SourcesAreVisited'
  BY <1>1 DEF Inductive, SourcesAreVisited, ToFiles, Going, Started
<1>6. FailuresAreReal'
  BY <1>1, WorldStays DEF FailuresAreReal
<1>. QED  BY <1>2, <1>3, <1>4, <1>5, <1>6 DEF Inductive

-----------------------------------------------------------------------------
(***************************************************************************)
(* The steps.                                                              *)
(***************************************************************************)
\* Before the root is read nothing is visited or queued.
LEMMA RootInductive ==
  ASSUME Inductive, result = "none", ~Started, world.root \in world.readable,
         sources' = <<world.root>>, visited' = {world.root},
         queue' = Requests(world.root), world' = world, result' = result
  PROVE  Inductive'
<1>. DEFINE root == world.root
<1>1. world \in Worlds /\ root \in Files
  BY WorldTypes DEF Inductive, TypeOK
<1>2. /\ Requests(root) \in Seq(Request) /\ Len(Requests(root)) = Len(Imports(root))
      /\ \A k \in 1..Len(Requests(root)) : Requests(root)[k] = Asked(root, Imports(root)[k])
      /\ ImportedBy(root) = {Imports(root)[k] : k \in 1..Len(Imports(root))}
  BY <1>1, RequestTypes, ImportTypes
<1>3. Len(sources') = 1 /\ sources'[1] = root
  OBVIOUS
<1>4. TypeOK'
  BY <1>1, <1>2 DEF Inductive, TypeOK
<1>5. QueueIsImported'
  <2>1. ASSUME NEW i \in 1..Len(queue')
        PROVE  \E n \in ImportedBy(root) : queue'[i] = Asked(root, n)
    BY <1>2
  <2>. QED  BY <2>1, WorldStays DEF QueueIsImported
<1>6. Sound'
  BY DEF Sound
<1>7. Complete'
  <2>1. ASSUME NEW n \in ImportedBy(root)
        PROVE  \E i \in 1..Len(queue') : queue'[i] = Asked(root, n)
    BY <1>2
  <2>. QED  BY <2>1, WorldStays DEF Complete, Queued
<1>8. SourcesAreVisited'
  <2>1. ToFiles' = {root}
    BY <1>3 DEF ToFiles
  <2>. QED  BY <1>3, <2>1 DEF SourcesAreVisited, Started
<1>9. FailuresAreReal'
  BY DEF FailuresAreReal
<1>. QED  BY <1>4, <1>5, <1>6, <1>7, <1>8, <1>9 DEF Inductive

\* An import of a visited file.
LEMMA SkipInductive ==
  ASSUME Inductive, result = "none", Started, queue # <<>>,
         Resolves(Head(queue)), Target(Head(queue)) \in visited,
         queue' = Tail(queue), UNCHANGED <<world, sources, visited, result>>
  PROVE  Inductive'
<1>1. queue \in Seq(Request)
  BY DEF Inductive, TypeOK
<1>2. /\ queue' \in Seq(Request) /\ Len(queue') = Len(queue) - 1 /\ Len(queue) \in Nat \ {0}
      /\ \A i \in 1..Len(queue') : queue'[i] = queue[i + 1]
  BY <1>1, HeadTailProperties, EmptySeq
<1>3. /\ queue' \in Seq(Request)
      /\ \A i \in 1..Len(queue') : \E j \in 1..Len(queue) : queue'[i] = queue[j]
      /\ \A j \in 1..Len(queue) :
            queue[j] = Head(queue) \/ \E i \in 1..Len(queue') : queue'[i] = queue[j]
  <2>1. \A i \in 1..Len(queue') : i + 1 \in 1..Len(queue)
    BY <1>2
  <2>2. ASSUME NEW j \in 1..Len(queue), queue[j] # Head(queue)
        PROVE  \E i \in 1..Len(queue') : queue'[i] = queue[j]
    <3>1. j # 1
      BY <1>1, <2>2
    <3>2. j - 1 \in 1..Len(queue') /\ (j - 1) + 1 = j
      BY <1>2, <3>1
    <3>. QED  BY <1>2, <3>2
  <2>. QED  BY <1>2, <2>1, <2>2
<1>4. TypeOK'
  BY <1>3 DEF Inductive, TypeOK
<1>5. QueueIsImported' /\ Sound'
  BY <1>3, WorldStays DEF Inductive, QueueIsImported, Sound
<1>6. ASSUME NEW f \in visited, NEW n \in ImportedBy(f)
      PROVE  Queued(Asked(f, n))' \/ \E g \in visited : Means(f, n, g)
  <2>1. CASE Head(queue) = Asked(f, n)
    <3>1. Means(f, n, Target(Head(queue)))
      BY <2>1, ResolutionIsMeaning
    <3>. QED  BY <3>1
  <2>2. CASE Head(queue) # Asked(f, n)
    <3>1. Queued(Asked(f, n)) \/ \E g \in visited : Means(f, n, g)
      BY DEF Inductive, Complete, Going
    <3>2. ASSUME Queued(Asked(f, n))
          PROVE  \E i \in 1..Len(queue') : queue'[i] = Asked(f, n)
      <4>1. PICK j \in 1..Len(queue) : queue[j] = Asked(f, n)
        BY <3>2 DEF Queued
      <4>2. PICK i \in 1..Len(queue') : queue'[i] = queue[j]
        BY <1>3, <2>2, <4>1, Zenon
      <4>. QED  BY <4>1, <4>2
    <3>. QED  BY <3>1, <3>2, WorldStays DEF Queued
  <2>. QED  BY <2>1, <2>2
<1>7. Complete'
  BY <1>6, WorldStays DEF Complete
<1>8. SourcesAreVisited'
  BY DEF Inductive, SourcesAreVisited, ToFiles, Going, Started
<1>9. FailuresAreReal'
  BY DEF FailuresAreReal
<1>. QED  BY <1>4, <1>5, <1>7, <1>8, <1>9 DEF Inductive

\* An import of a file that is visited now.
LEMMA VisitedStaysSound ==
  ASSUME Inductive, queue # <<>>, Resolves(Head(queue)), world' = world,
         visited' = visited \cup {Target(Head(queue))}
  PROVE  Sound' /\ visited' \subseteq Files
<1>1. PICK f \in visited : \E n \in ImportedBy(f) : Head(queue) = Asked(f, n)
  BY HeadIsImported
<1>2. PICK n \in ImportedBy(f) : Head(queue) = Asked(f, n)
  BY <1>1
<1>3. Target(Head(queue)) \in Files /\ Means(f, n, Target(Head(queue)))
  BY <1>2, ResolutionIsMeaning
<1>4. ASSUME NEW S \in SUBSET Files, world.root \in S, Closed(S)
      PROVE  visited' \subseteq S
  <2>1. visited \subseteq S
    BY <1>4 DEF Inductive, Sound
  <2>2. Target(Head(queue)) \in S
    BY <1>3, <1>4, <2>1 DEF Closed
  <2>. QED  BY <2>1, <2>2
<1>5. Sound'
  BY <1>4, WorldStays DEF Sound
<1>. QED  BY <1>3, <1>5 DEF Inductive, TypeOK

\* The file that an import means cannot be read.
LEMMA UnreadableInductive ==
  ASSUME Inductive, result = "none", Started, queue # <<>>, Resolves(Head(queue)),
         Target(Head(queue)) \notin world.readable,
         visited' = visited \cup {Target(Head(queue))}, result' = "unreadable",
         UNCHANGED <<world, sources, queue>>
  PROVE  Inductive'
<1>1. Sound' /\ visited' \subseteq Files
  BY VisitedStaysSound
<1>2. TypeOK'
  BY <1>1 DEF Inductive, TypeOK, Results
<1>3. QueueIsImported'
  BY WorldStays DEF Inductive, QueueIsImported
<1>4. Complete'
  BY DEF Complete, Going
<1>5. SourcesAreVisited'
  BY DEF Inductive, SourcesAreVisited, ToFiles, Going, Started
<1>6. FailuresAreReal'
  BY DEF FailuresAreReal
<1>. QED  BY <1>1, <1>2, <1>3, <1>4, <1>5, <1>6 DEF Inductive

\* The file that an import means is read, and its imports join the queue.
LEMMA ReadInductive ==
  ASSUME Inductive, result = "none", Started, queue # <<>>, Resolves(Head(queue)),
         Target(Head(queue)) \notin visited, Target(Head(queue)) \in world.readable,
         visited' = visited \cup {Target(Head(queue))},
         sources' = Append(sources, Target(Head(queue))),
         queue' = Tail(queue) \o Requests(Target(Head(queue))),
         UNCHANGED <<world, result>>
  PROVE  Inductive'
<1>. DEFINE new == Target(Head(queue))
<1>1. /\ world \in Worlds /\ new \in Files
      /\ queue \in Seq(Request) /\ sources \in Seq(Files) /\ Len(sources) \in Nat
  BY LenProperties DEF Inductive, TypeOK, Resolves, Target
<1>2. /\ Requests(new) \in Seq(Request) /\ Len(Requests(new)) = Len(Imports(new))
      /\ \A k \in 1..Len(Requests(new)) : Requests(new)[k] = Asked(new, Imports(new)[k])
      /\ ImportedBy(new) = {Imports(new)[k] : k \in 1..Len(Imports(new))}
  BY <1>1, RequestTypes, ImportTypes
<1>3. /\ queue' \in Seq(Request)
      /\ \A i \in 1..Len(queue') :
            \/ \E j \in 1..Len(queue) : queue'[i] = queue[j]
            \/ \E k \in 1..Len(Requests(new)) : queue'[i] = Requests(new)[k]
      /\ \A j \in 1..Len(queue) :
            queue[j] = Head(queue) \/ \E i \in 1..Len(queue') : queue'[i] = queue[j]
      /\ \A k \in 1..Len(Requests(new)) :
            \E i \in 1..Len(queue') : queue'[i] = Requests(new)[k]
  <2>. DEFINE q == Tail(queue) \o Requests(new)
  <2>1. /\ q \in Seq(Request)
        /\ \A i \in 1..Len(q) :
              \/ \E j \in 1..Len(queue) : q[i] = queue[j]
              \/ \E k \in 1..Len(Requests(new)) : q[i] = Requests(new)[k]
        /\ \A j \in 1..Len(queue) :
              queue[j] = Head(queue) \/ \E i \in 1..Len(q) : q[i] = queue[j]
        /\ \A k \in 1..Len(Requests(new)) : \E i \in 1..Len(q) : q[i] = Requests(new)[k]
    BY <1>1, <1>2, QueueMoves, Zenon
  <2>2. queue' = q
    OBVIOUS
  <2>. HIDE DEF q
  <2>. QED  BY <2>1, <2>2, ZenonT(40)
<1>4. Sound' /\ visited' \subseteq Files
  BY VisitedStaysSound
<1>5. /\ sources' \in Seq(Files) /\ Len(sources') = Len(sources) + 1
      /\ \A i \in 1..Len(sources) : sources'[i] = sources[i]
      /\ sources'[Len(sources) + 1] = new
  BY <1>1, AppendProperties
<1>6. TypeOK'
  BY <1>3, <1>4, <1>5 DEF Inductive, TypeOK
<1>7. QueueIsImported'
  <2>1. ASSUME NEW i \in 1..Len(queue')
        PROVE  \E f \in visited' : \E n \in ImportedBy(f) : queue'[i] = Asked(f, n)
    <3>1. CASE \E j \in 1..Len(queue) : queue'[i] = queue[j]
      BY <3>1 DEF Inductive, QueueIsImported
    <3>2. CASE \E k \in 1..Len(Requests(new)) : queue'[i] = Requests(new)[k]
      BY <1>2, <3>2
    <3>. QED  BY <1>3, <2>1, <3>1, <3>2
  <2>2. world' = world
    OBVIOUS
  <2>3. \A f : ImportedBy(f)' = ImportedBy(f) /\ \A n : Asked(f, n)' = Asked(f, n)
    BY <2>2, WorldStays
  <2>. QED  BY <2>1, <2>3 DEF QueueIsImported
<1>8. ASSUME NEW f \in visited', NEW n \in ImportedBy(f)
      PROVE  Queued(Asked(f, n))' \/ \E g \in visited' : Means(f, n, g)
  <2>1. CASE f \in visited /\ Head(queue) = Asked(f, n)
    <3>1. Means(f, n, new)
      BY <2>1, ResolutionIsMeaning
    <3>. QED  BY <3>1
  <2>2. CASE f \in visited /\ Head(queue) # Asked(f, n)
    <3>1. Queued(Asked(f, n)) \/ \E g \in visited : Means(f, n, g)
      BY <2>2 DEF Inductive, Complete, Going
    <3>2. ASSUME Queued(Asked(f, n))
          PROVE  \E i \in 1..Len(queue') : queue'[i] = Asked(f, n)
      <4>1. PICK j \in 1..Len(queue) : queue[j] = Asked(f, n)
        BY <3>2 DEF Queued
      <4>2. PICK i \in 1..Len(queue') : queue'[i] = queue[j]
        BY <1>3, <2>2, <4>1, Zenon
      <4>. QED  BY <4>1, <4>2
    <3>. QED  BY <3>1, <3>2, WorldStays DEF Queued
  <2>3. CASE f = new
    <3>1. PICK k \in 1..Len(Requests(new)) : n = Imports(new)[k]
      BY <1>2, <1>8, <2>3
    <3>2. Requests(new)[k] = Asked(f, n)
      BY <1>2, <2>3, <3>1
    <3>3. \E i \in 1..Len(queue') : queue'[i] = Asked(f, n)
      <4>1. PICK i \in 1..Len(queue') : queue'[i] = Requests(new)[k]
        BY <1>3, Zenon
      <4>. QED  BY <3>2, <4>1
    <3>. QED  BY <3>3, WorldStays DEF Queued
  <2>. QED  BY <1>8, <2>1, <2>2, <2>3
<1>9. Complete'
  BY <1>8, WorldStays DEF Complete
<1>10. ToFiles' = ToFiles \cup {new}
  <2>1. 1..Len(sources') = (1..Len(sources)) \cup {Len(sources) + 1}
    BY <1>1, <1>5
  <2>. QED  BY <1>5, <2>1 DEF ToFiles
<1>11. \A i, j \in 1..Len(sources') : sources'[i] = sources'[j] => i = j
  <2>1. \A i \in 1..Len(sources) : sources[i] # new
    BY DEF Inductive, SourcesAreVisited, ToFiles
  <2>2. \A i, j \in 1..Len(sources) : sources[i] = sources[j] => i = j
    BY DEF Inductive, SourcesAreVisited
  <2>3. \A i \in 1..Len(sources') : i \in 1..Len(sources) \/ i = Len(sources) + 1
    BY <1>1, <1>5
  <2>. QED  BY <1>5, <2>1, <2>2, <2>3
<1>12. SourcesAreVisited'
  <2>1. Started'
    BY <1>1, <1>5, EmptySeq DEF Started
  <2>. QED  BY <1>10, <1>11, <2>1 DEF Inductive, SourcesAreVisited, Going
<1>13. FailuresAreReal'
  BY DEF FailuresAreReal
<1>. QED  BY <1>4, <1>6, <1>7, <1>9, <1>12, <1>13 DEF Inductive

\* Nothing is left to resolve.
LEMMA FinishInductive ==
  ASSUME Inductive, Finish
  PROVE  Inductive'
<1>1. /\ result = "none" /\ Started /\ queue = <<>> /\ result' = "ok"
      /\ world' = world /\ sources' = sources /\ visited' = visited /\ queue' = queue
  BY DEF Finish, progress
<1>2. TypeOK'
  BY <1>1 DEF Inductive, TypeOK, Results
<1>3. QueueIsImported' /\ Sound'
  BY <1>1, WorldStays DEF Inductive, QueueIsImported, Sound
<1>4. Complete'
  BY <1>1, WorldStays DEF Inductive, Complete, Going, Queued
<1>5. SourcesAreVisited'
  BY <1>1 DEF Inductive, SourcesAreVisited, ToFiles, Going, Started
<1>6. FailuresAreReal'
  BY <1>1 DEF FailuresAreReal
<1>. QED  BY <1>2, <1>3, <1>4, <1>5, <1>6 DEF Inductive

\* The root is absent, cannot be read, or is read.
LEMMA ReadRootInductive ==
  ASSUME Inductive, ReadRoot
  PROVE  Inductive'
<1>1. result = "none" /\ ~Started
  BY DEF ReadRoot
<1>2. CASE world.root \in NoFile
  <2>1. Fail("no_root")
    BY <1>2 DEF ReadRoot
  <2>. QED  BY <2>1, FailInductive DEF Results
<1>3. CASE world.root \notin NoFile /\ world.root \notin world.readable
  <2>1. Fail("unreadable")
    BY <1>3 DEF ReadRoot
  <2>2. ~(visited \cup {world.root} \subseteq world.readable)
    BY <1>3
  <2>. QED  BY <2>1, <2>2, FailInductive DEF Results
<1>4. CASE world.root \notin NoFile /\ world.root \in world.readable
  <2>1. /\ sources' = <<world.root>> /\ visited' = {world.root}
        /\ queue' = Requests(world.root) /\ world' = world /\ result' = result
    BY <1>4 DEF ReadRoot
  <2>. QED  BY <1>1, <1>4, <2>1, RootInductive
<1>. QED  BY <1>2, <1>3, <1>4

\* The next import fails, has been visited already, or is read.
LEMMA TakeImportInductive ==
  ASSUME Inductive, TakeImport
  PROVE  Inductive'
<1>. DEFINE first == Head(queue)
<1>1. result = "none" /\ Started /\ queue # <<>>
  BY DEF TakeImport
<1>2. CASE ~Resolves(first)
  <2>1. PICK reason \in {"not_found", "unresolvable", "ambiguous"} : Fail(reason)
    BY <1>2 DEF TakeImport
  <2>2. PICK f \in visited : \E n \in ImportedBy(f) : first = Asked(f, n)
    BY <1>1, HeadIsImported
  <2>3. ~Wanted(f)
    BY <1>2, <2>2, ResolutionIsMeaning DEF Wanted
  <2>. QED  BY <2>1, <2>3, FailInductive DEF Results
<1>3. CASE Resolves(first) /\ Target(first) \in visited
  <2>1. queue' = Tail(queue) /\ UNCHANGED <<world, sources, visited, result>>
    BY <1>3 DEF TakeImport, Skipped
  <2>. QED  BY <1>1, <1>3, <2>1, SkipInductive
<1>4. CASE Resolves(first) /\ Target(first) \notin visited
  <2>1. Read(Target(first))
    BY <1>4 DEF TakeImport
  <2>2. CASE Target(first) \notin world.readable
    <3>1. /\ visited' = visited \cup {Target(first)} /\ result' = "unreadable"
          /\ UNCHANGED <<world, sources, queue>>
      BY <2>1, <2>2 DEF Read
    <3>. QED  BY <1>1, <1>4, <2>2, <3>1, UnreadableInductive
  <2>3. CASE Target(first) \in world.readable
    <3>1. /\ visited' = visited \cup {Target(first)}
          /\ sources' = Append(sources, Target(first))
          /\ queue' = Tail(queue) \o Requests(Target(first))
          /\ UNCHANGED <<world, result>>
      BY <2>1, <2>3 DEF Read, Enqueued
    <3>. QED  BY <1>1, <1>4, <2>3, <3>1, ReadInductive
  <2>. QED  BY <2>2, <2>3
<1>. QED  BY <1>2, <1>3, <1>4

\* The invariant of the search holds for every file system and every scanner.
THEOREM SearchInvariant == Spec => []Inductive
<1>1. Inductive /\ [Next]_vars => Inductive'
  <2>. SUFFICES ASSUME Inductive, [Next]_vars PROVE Inductive'
    OBVIOUS
  <2>1. CASE ReadRoot
    BY <2>1, ReadRootInductive
  <2>2. CASE TakeImport
    BY <2>2, TakeImportInductive
  <2>3. CASE Finish
    BY <2>3, FinishInductive
  <2>4. CASE UNCHANGED vars
    <3>1. /\ world' = world /\ sources' = sources /\ visited' = visited
          /\ queue' = queue /\ result' = result
      BY <2>4 DEF vars, progress
    <3>2. TypeOK' /\ QueueIsImported' /\ Sound'
      BY <3>1, WorldStays DEF Inductive, TypeOK, QueueIsImported, Sound
    <3>3. Complete'
      BY <3>1, WorldStays DEF Inductive, Complete, Going, Queued
    <3>4. SourcesAreVisited' /\ FailuresAreReal'
      BY <3>1, WorldStays
      DEF Inductive, SourcesAreVisited, FailuresAreReal, ToFiles, Going, Started
    <3>. QED  BY <3>2, <3>3, <3>4 DEF Inductive
  <2>. QED  BY <2>1, <2>2, <2>3, <2>4 DEF Next
<1>. QED  BY <1>1, InitInductive, PTL DEF Spec

\* What spec_from_files returns is the least closure of the root, each file
\* once; and when it fails, something that the root reaches cannot be had.
THEOREM LeastClosure == Spec => []ClosureIsLeast
<1>1. Inductive => ClosureIsLeast
  <2>. SUFFICES ASSUME Inductive PROVE ClosureIsLeast
    OBVIOUS
  <2>1. /\ \A S \in SUBSET Files : world.root \in S /\ Closed(S) => visited \subseteq S
        /\ \A i, j \in 1..Len(sources) : sources[i] = sources[j] => i = j
    BY DEF Inductive, Sound, SourcesAreVisited
  <2>2. ASSUME result = "ok"
        PROVE  /\ ToFiles = visited /\ world.root \in visited
               /\ Closed(visited) /\ visited \subseteq world.readable
               /\ \A f \in visited : Wanted(f)
    <3>1. /\ ToFiles = visited /\ world.root \in visited /\ visited \subseteq world.readable
          /\ queue = <<>>
      BY <2>2 DEF Inductive, SourcesAreVisited, Going
    <3>2. \A f \in visited : \A n \in ImportedBy(f) : \E g \in visited : Means(f, n, g)
      <4>1. \A r : ~Queued(r)
        BY <3>1, EmptySeq DEF Queued
      <4>. QED  BY <2>2, <4>1 DEF Inductive, Complete, Going
    <3>3. \A f \in visited : Wanted(f)
      BY <3>2 DEF Wanted, Inductive, TypeOK
    <3>4. Closed(visited)
      <4>1. \A f, n, g, h : Means(f, n, g) /\ Means(f, n, h) => g = h
        BY DEF Means
      <4>. QED  BY <3>2, <4>1 DEF Closed
    <3>. QED  BY <3>1, <3>3, <3>4
  <2>3. FailuresAreReal
    BY DEF Inductive
  <2>. QED  BY <2>1, <2>2, <2>3 DEF ClosureIsLeast, FailuresAreReal
<1>. QED  BY <1>1, SearchInvariant, PTL
-----------------------------------------------------------------------------
(***************************************************************************)
(* The order of the closure.  An import has a position: which of the       *)
(* sources it is in, and which of that source's imports it is.             *)
(***************************************************************************)
Positions(ss) == UNION {{i} \X (1..Len(Imports(ss[i]))) : i \in 1..Len(ss)}

Named(ss, p) == Imports(ss[p[1]])[p[2]]

\* The import at p means one of the first n sources.
Known(ss, n, p) == \E i \in 1..n : Means(ss[p[1]], Named(ss, p), ss[i])

\* The queue holds the imports at ps, in order, and every other one is known.
Awaits(ss, qs, ps) ==
    /\ ps \in Seq(Nat \X Nat) /\ Len(ps) = Len(qs)
    /\ \A m \in 1..Len(ps) :
          ps[m] \in Positions(ss) /\ qs[m] = Asked(ss[ps[m][1]], Named(ss, ps[m]))
    /\ \A m, n \in 1..Len(ps) : m < n => Earlier(ps[m], ps[n])
    /\ \A p \in Positions(ss) : (\E m \in 1..Len(ps) : ps[m] = p) \/ Known(ss, Len(ss), p)

\* The j-th source is there because of the import at p.
Leads(ss, j, p) ==
    /\ p \in Positions(ss) /\ p[1] < j /\ Means(ss[p[1]], Named(ss, p), ss[j])
    /\ \A r \in Positions(ss) : Earlier(r, p) => Known(ss, j - 1, r)

BreadthFirst ==
    /\ \E ps : Awaits(sources, queue, ps)
    /\ Started => sources[1] = world.root
    /\ \A j \in 2..Len(sources) : \E p : Leads(sources, j, p)

\* A position is a source and one of its imports.
LEMMA PositionTypes ==
  ASSUME world \in Worlds, NEW ss \in Seq(Files), NEW p
  PROVE  p \in Positions(ss) <=>
            /\ p \in Nat \X Nat
            /\ p[1] \in 1..Len(ss) /\ p[2] \in 1..Len(Imports(ss[p[1]]))
<1>1. \A i \in 1..Len(ss) : i \in Nat /\ Len(Imports(ss[i])) \in Nat
  BY ImportTypes, LenProperties, ElementOfSeq
<1>2. ASSUME p \in Positions(ss)
      PROVE  /\ p \in Nat \X Nat
             /\ p[1] \in 1..Len(ss) /\ p[2] \in 1..Len(Imports(ss[p[1]]))
  <2>1. PICK i \in 1..Len(ss) : p \in {i} \X (1..Len(Imports(ss[i])))
    BY <1>2 DEF Positions
  <2>2. p[1] = i /\ p[2] \in 1..Len(Imports(ss[i])) /\ p = <<p[1], p[2]>>
    BY <2>1
  <2>3. p[2] \in Nat
    BY <1>1, <2>2
  <2>. QED  BY <1>1, <2>2, <2>3
<1>3. ASSUME p \in Nat \X Nat, p[1] \in 1..Len(ss), p[2] \in 1..Len(Imports(ss[p[1]]))
      PROVE  p \in Positions(ss)
  <2>1. p \in {p[1]} \X (1..Len(Imports(ss[p[1]])))
    BY <1>3
  <2>. QED  BY <1>3, <2>1 DEF Positions
<1>. QED  BY <1>2, <1>3

\* The first of a queue goes, and others come after the last.
LEMMA Moved ==
  ASSUME NEW S, NEW s \in Seq(S), s # <<>>, NEW t \in Seq(S)
  PROVE  /\ Tail(s) \o t \in Seq(S) /\ Len(s) \in Nat \ {0} /\ Len(t) \in Nat
         /\ Len(Tail(s) \o t) = (Len(s) - 1) + Len(t)
         /\ \A i \in 1..(Len(s) - 1) : (Tail(s) \o t)[i] = s[i + 1]
         /\ \A k \in 1..Len(t) : (Tail(s) \o t)[(Len(s) - 1) + k] = t[k]
<1>1. /\ Tail(s) \in Seq(S) /\ Len(Tail(s)) = Len(s) - 1 /\ Len(s) \in Nat \ {0}
      /\ \A i \in 1..Len(Tail(s)) : Tail(s)[i] = s[i + 1]
  BY HeadTailProperties, EmptySeq
<1>2. Len(t) \in Nat
  BY LenProperties
<1>3. /\ Tail(s) \o t \in Seq(S) /\ Len(Tail(s) \o t) = Len(Tail(s)) + Len(t)
      /\ \A i \in 1..(Len(Tail(s)) + Len(t)) :
            (Tail(s) \o t)[i] = IF i <= Len(Tail(s)) THEN Tail(s)[i] ELSE t[i - Len(Tail(s))]
  BY <1>1, ConcatProperties
<1>. DEFINE tail == Tail(s)
            moved == tail \o t
<1>. HIDE DEF tail, moved
<1>4. ASSUME NEW i \in 1..(Len(s) - 1) PROVE moved[i] = s[i + 1]
  <2>1. i \in 1..Len(tail) /\ i \in 1..(Len(tail) + Len(t)) /\ i <= Len(tail)
    BY <1>1, <1>2 DEF tail
  <2>. QED  BY <1>1, <1>3, <2>1 DEF tail, moved
<1>5. ASSUME NEW k \in 1..Len(t) PROVE moved[(Len(s) - 1) + k] = t[k]
  <2>. DEFINE i == (Len(s) - 1) + k
  <2>1. i \in 1..(Len(tail) + Len(t)) /\ ~(i <= Len(tail)) /\ i - Len(tail) = k
    BY <1>1, <1>2 DEF tail
  <2>. HIDE DEF i
  <2>2. moved[i] = t[k]
    BY <1>3, <2>1 DEF tail, moved
  <2>. QED  BY <2>2 DEF i
<1>. QED  BY <1>1, <1>2, <1>3, <1>4, <1>5 DEF tail, moved

\* Nothing of the order depends on more than the file system and its arguments.
LEMMA OrderStays ==
  ASSUME world' = world
  PROVE  /\ \A ss, qs, ps : Awaits(ss, qs, ps)' <=> Awaits(ss, qs, ps)
         /\ \A ss, j, p : Leads(ss, j, p)' <=> Leads(ss, j, p)
<1>1. \A f : Imports(f)' = Imports(f)
  BY DEF Imports
<1>2. \A ss : Positions(ss)' = Positions(ss)
  BY <1>1 DEF Positions
<1>3. \A ss, p : Named(ss, p)' = Named(ss, p)
  BY <1>1 DEF Named
<1>4. \A ss, n, p : Known(ss, n, p)' <=> Known(ss, n, p)
  BY <1>3, WorldStays DEF Known
<1>5. \A ss, qs, ps : Awaits(ss, qs, ps)' <=> Awaits(ss, qs, ps)
  BY <1>2, <1>3, <1>4, WorldStays DEF Awaits
<1>6. \A ss, j, p : Leads(ss, j, p)' <=> Leads(ss, j, p)
  BY <1>2, <1>3, <1>4, WorldStays DEF Leads
<1>. QED  BY <1>5, <1>6

\* Nothing is asked for before the root is read.
LEMMA InitBreadthFirst == Init => BreadthFirst
<1>. SUFFICES ASSUME Init PROVE BreadthFirst
  OBVIOUS
<1>1. sources = <<>> /\ queue = <<>>
  BY DEF Init
<1>2. Len(sources) = 0 /\ Len(queue) = 0 /\ <<>> \in Seq(Nat \X Nat) /\ Len(<<>>) = 0
  BY <1>1
<1>3. \A p : p \notin Positions(sources)
  BY <1>2 DEF Positions
<1>4. Awaits(sources, queue, <<>>)
  BY <1>1, <1>2, <1>3 DEF Awaits
<1>. QED  BY <1>1, <1>2, <1>4 DEF BreadthFirst, Started

\* The imports of the root are asked for in their order.
LEMMA RootBreadthFirst ==
  ASSUME Inductive, world.root \in world.readable, world' = world,
         sources' = <<world.root>>, queue' = Requests(world.root)
  PROVE  BreadthFirst'
<1>. DEFINE root == world.root
            ss   == <<root>>
            ps   == [k \in 1..Len(Imports(root)) |-> <<1, k>>]
<1>1. world \in Worlds /\ root \in Files
  BY WorldTypes DEF Inductive, TypeOK
<1>2. ss \in Seq(Files) /\ Len(ss) = 1 /\ ss[1] = root
  BY <1>1
<1>3. /\ Len(Requests(root)) = Len(Imports(root)) /\ Len(Imports(root)) \in Nat
      /\ \A k \in 1..Len(Requests(root)) : Requests(root)[k] = Asked(root, Imports(root)[k])
  BY <1>1, RequestTypes, ImportTypes, LenProperties
<1>4. /\ ps \in Seq(Nat \X Nat) /\ Len(ps) = Len(Imports(root))
      /\ \A m \in 1..Len(ps) : ps[m] = <<1, m>> /\ ps[m][1] = 1 /\ ps[m][2] = m
  <2>1. ps \in [1..Len(Imports(root)) -> Nat \X Nat]
    BY <1>3
  <2>2. ps \in Seq(Nat \X Nat) /\ Len(ps) = Len(Imports(root))
    BY <1>3, <2>1, SeqDef, LenProperties
  <2>. QED  BY <2>2
<1>. HIDE DEF ps, ss
<1>5. \A p : p \in Positions(ss) <=> p \in Nat \X Nat /\ p[1] = 1 /\ p[2] \in 1..Len(Imports(root))
  <2>. SUFFICES ASSUME NEW p
                PROVE  p \in Positions(ss) <=>
                          p \in Nat \X Nat /\ p[1] = 1 /\ p[2] \in 1..Len(Imports(root))
    OBVIOUS
  <2>1. p \in Positions(ss) <=>
           /\ p \in Nat \X Nat
           /\ p[1] \in 1..Len(ss) /\ p[2] \in 1..Len(Imports(ss[p[1]]))
    BY <1>1, <1>2, PositionTypes
  <2>2. p[1] \in 1..Len(ss) <=> p[1] = 1
    BY <1>2
  <2>. QED  BY <1>2, <2>1, <2>2
<1>6. ASSUME NEW m \in 1..Len(ps)
      PROVE  ps[m] \in Positions(ss) /\ Requests(root)[m] = Asked(ss[ps[m][1]], Named(ss, ps[m]))
  <2>1. ps[m] = <<1, m>> /\ ps[m][1] = 1 /\ ps[m][2] = m /\ m \in 1..Len(Imports(root))
    BY <1>4
  <2>2. ps[m] \in Positions(ss)
    BY <1>3, <1>5, <2>1
  <2>3. Requests(root)[m] = Asked(root, Imports(root)[m])
    BY <1>3, <2>1
  <2>4. ss[ps[m][1]] = root /\ Named(ss, ps[m]) = Imports(root)[m]
    BY <1>2, <2>1 DEF Named
  <2>. QED  BY <2>2, <2>3, <2>4
<1>7. ASSUME NEW m \in 1..Len(ps), NEW n \in 1..Len(ps), m < n
      PROVE  Earlier(ps[m], ps[n])
  <2>1. ps[m][1] = 1 /\ ps[m][2] = m /\ ps[n][1] = 1 /\ ps[n][2] = n
    BY <1>4
  <2>. QED  BY <1>7, <2>1 DEF Earlier
<1>8. ASSUME NEW p \in Positions(ss)
      PROVE  \E m \in 1..Len(ps) : ps[m] = p
  <2>1. p \in Nat \X Nat /\ p[1] = 1 /\ p[2] \in 1..Len(ps)
    BY <1>4, <1>5
  <2>2. p = <<1, p[2]>> /\ ps[p[2]] = <<1, p[2]>>
    BY <1>4, <2>1
  <2>. QED  BY <2>1, <2>2
<1>9. Awaits(ss, Requests(root), ps)
  BY <1>3, <1>4, <1>6, <1>7, <1>8 DEF Awaits
<1>10. PICK qs : Awaits(ss, Requests(root), qs)
  BY <1>9
<1>11. Awaits(sources, queue, qs)'
  BY <1>10, OrderStays DEF ss
<1>. QED  BY <1>1, <1>2, <1>11 DEF BreadthFirst, ss

\* The next import is the first that is not known yet.
LEMMA FirstAwaited ==
  ASSUME Inductive, queue # <<>>, Resolves(Head(queue)), NEW ps, Awaits(sources, queue, ps)
  PROVE  /\ ps # <<>> /\ ps[1] \in Positions(sources)
         /\ Means(sources[ps[1][1]], Named(sources, ps[1]), Target(Head(queue)))
         /\ \A r \in Positions(sources) : Earlier(r, ps[1]) => Known(sources, Len(sources), r)
<1>1. Len(queue) \in Nat \ {0} /\ Head(queue) = queue[1]
  BY EmptySeq, LenProperties DEF Inductive, TypeOK
<1>2. /\ ps \in Seq(Nat \X Nat) /\ Len(ps) = Len(queue) /\ 1 \in 1..Len(ps)
      /\ ps[1] \in Positions(sources)
      /\ queue[1] = Asked(sources[ps[1][1]], Named(sources, ps[1]))
  BY <1>1 DEF Awaits
<1>3. ps # <<>>
  BY <1>1, <1>2
<1>4. Means(sources[ps[1][1]], Named(sources, ps[1]), Target(Head(queue)))
  BY <1>1, <1>2, ResolutionIsMeaning
<1>5. ASSUME NEW r \in Positions(sources), Earlier(r, ps[1])
      PROVE  Known(sources, Len(sources), r)
  <2>1. r \in Nat \X Nat /\ \A m \in 1..Len(ps) : ps[m] \in Nat \X Nat
    BY <1>2, PositionTypes, ElementOfSeq DEF Inductive, TypeOK
  <2>2. ASSUME NEW m \in 1..Len(ps), ps[m] = r PROVE FALSE
    <3>1. m = 1 \/ 1 < m
      BY <1>1, <1>2
    <3>2. Earlier(ps[1], r) \/ ps[1] = r
      BY <1>2, <2>2, <3>1 DEF Awaits
    <3>3. ps[1][1] \in Nat /\ ps[1][2] \in Nat /\ r[1] \in Nat /\ r[2] \in Nat
      BY <1>2, <2>1
    <3>. QED  BY <1>5, <3>2, <3>3 DEF Earlier
  <2>. QED  BY <2>2 DEF Awaits
<1>. QED  BY <1>2, <1>3, <1>4, <1>5

\* A known import leaves the queue.
LEMMA SkipBreadthFirst ==
  ASSUME Inductive, BreadthFirst, result = "none", queue # <<>>,
         Resolves(Head(queue)), Target(Head(queue)) \in visited,
         queue' = Tail(queue), UNCHANGED <<world, sources>>
  PROVE  BreadthFirst'
<1>1. PICK ps : Awaits(sources, queue, ps)
  BY DEF BreadthFirst
<1>2. /\ ps # <<>> /\ ps \in Seq(Nat \X Nat) /\ Len(ps) = Len(queue)
      /\ Means(sources[ps[1][1]], Named(sources, ps[1]), Target(Head(queue)))
  BY <1>1, FirstAwaited DEF Awaits
<1>3. PICK i \in 1..Len(sources) : sources[i] = Target(Head(queue))
  BY DEF Inductive, SourcesAreVisited, Going, ToFiles
<1>4. Known(sources, Len(sources), ps[1])
  BY <1>2, <1>3 DEF Known
<1>5. /\ Tail(ps) \in Seq(Nat \X Nat) /\ Len(Tail(ps)) = Len(ps) - 1 /\ Len(ps) \in Nat \ {0}
      /\ \A m \in 1..Len(Tail(ps)) : Tail(ps)[m] = ps[m + 1]
  BY <1>2, HeadTailProperties, EmptySeq
<1>6. /\ Len(Tail(queue)) = Len(queue) - 1
      /\ \A m \in 1..Len(Tail(queue)) : Tail(queue)[m] = queue[m + 1]
  BY HeadTailProperties DEF Inductive, TypeOK
<1>7. \A m \in 1..Len(Tail(ps)) : m + 1 \in 1..Len(ps) /\ m \in 1..Len(Tail(queue))
  BY <1>2, <1>5, <1>6
<1>8. \A m \in 1..Len(Tail(ps)) :
         /\ Tail(ps)[m] \in Positions(sources)
         /\ Tail(queue)[m] = Asked(sources[Tail(ps)[m][1]], Named(sources, Tail(ps)[m]))
  BY <1>1, <1>5, <1>6, <1>7 DEF Awaits
<1>9. ASSUME NEW m \in 1..Len(Tail(ps)), NEW n \in 1..Len(Tail(ps)), m < n
      PROVE  Earlier(Tail(ps)[m], Tail(ps)[n])
  <2>1. m + 1 \in 1..Len(ps) /\ n + 1 \in 1..Len(ps) /\ m + 1 < n + 1
    BY <1>5, <1>9
  <2>. QED  BY <1>1, <1>5, <2>1 DEF Awaits
<1>10. ASSUME NEW p \in Positions(sources)
       PROVE  (\E m \in 1..Len(Tail(ps)) : Tail(ps)[m] = p) \/ Known(sources, Len(sources), p)
  <2>1. CASE \E m \in 1..Len(ps) : ps[m] = p
    <3>1. PICK m \in 1..Len(ps) : ps[m] = p
      BY <2>1
    <3>2. CASE m = 1
      BY <1>4, <3>1, <3>2
    <3>3. CASE m # 1
      <4>1. m - 1 \in 1..Len(Tail(ps)) /\ Tail(ps)[m - 1] = ps[(m - 1) + 1] /\ (m - 1) + 1 = m
        BY <1>5, <3>1, <3>3
      <4>. QED  BY <3>1, <4>1
    <3>. QED  BY <3>2, <3>3
  <2>2. CASE Known(sources, Len(sources), p)
    BY <2>2
  <2>. QED  BY <1>1, <2>1, <2>2 DEF Awaits
<1>11. Awaits(sources, Tail(queue), Tail(ps))
  BY <1>2, <1>5, <1>6, <1>8, <1>9, <1>10 DEF Awaits
<1>12. Awaits(sources, queue, Tail(ps))'
  BY <1>11, OrderStays
<1>. QED  BY <1>12, OrderStays DEF BreadthFirst, Started

\* A source that is read keeps the positions there were, and adds its own.
Grown(ss, f, tt) ==
    /\ tt \in Seq(Files) /\ Len(ss) \in Nat /\ Len(tt) = Len(ss) + 1
    /\ \A i \in 1..Len(ss) : tt[i] = ss[i]
    /\ tt[Len(ss) + 1] = f
    /\ \A p \in Positions(ss) :
          /\ p \in Positions(tt) /\ tt[p[1]] = ss[p[1]] /\ Named(tt, p) = Named(ss, p)
          /\ p[1] \in Nat /\ p[1] < Len(ss) + 1
    /\ \A p \in Positions(tt) :
          p \in Positions(ss) \/ \E k \in 1..Len(Imports(f)) : p = <<Len(ss) + 1, k>>
    /\ \A k \in 1..Len(Imports(f)) :
          /\ <<Len(ss) + 1, k>> \in Positions(tt)
          /\ Named(tt, <<Len(ss) + 1, k>>) = Imports(f)[k]

LEMMA PositionsGrow ==
  ASSUME world \in Worlds, NEW ss \in Seq(Files), NEW f \in Files
  PROVE  Grown(ss, f, Append(ss, f))
<1>. DEFINE tt == Append(ss, f)
<1>1. /\ tt \in Seq(Files) /\ Len(ss) \in Nat /\ Len(tt) = Len(ss) + 1
      /\ \A i \in 1..Len(ss) : tt[i] = ss[i]
      /\ tt[Len(ss) + 1] = f
  BY AppendProperties, LenProperties
<1>. HIDE DEF tt
<1>2. Len(Imports(f)) \in Nat
  BY ImportTypes, LenProperties
<1>3. ASSUME NEW p \in Positions(ss)
      PROVE  /\ p \in Positions(tt) /\ tt[p[1]] = ss[p[1]] /\ Named(tt, p) = Named(ss, p)
             /\ p[1] \in Nat /\ p[1] < Len(ss) + 1
  <2>1. /\ p \in Nat \X Nat
        /\ p[1] \in 1..Len(ss) /\ p[2] \in 1..Len(Imports(ss[p[1]]))
    BY PositionTypes
  <2>2. tt[p[1]] = ss[p[1]] /\ p[1] \in 1..Len(tt)
    BY <1>1, <2>1
  <2>3. p \in Positions(tt)
    BY <1>1, <2>1, <2>2, PositionTypes
  <2>. QED  BY <1>1, <2>1, <2>2, <2>3 DEF Named
<1>4. ASSUME NEW p \in Positions(tt)
      PROVE  p \in Positions(ss) \/ \E k \in 1..Len(Imports(f)) : p = <<Len(ss) + 1, k>>
  <2>1. /\ p \in Nat \X Nat
        /\ p[1] \in 1..Len(tt) /\ p[2] \in 1..Len(Imports(tt[p[1]]))
    BY <1>1, PositionTypes
  <2>2. CASE p[1] = Len(ss) + 1
    <3>1. p = <<Len(ss) + 1, p[2]>> /\ p[2] \in 1..Len(Imports(f))
      BY <1>1, <2>1, <2>2
    <3>. QED  BY <3>1
  <2>3. CASE p[1] # Len(ss) + 1
    <3>1. p[1] \in 1..Len(ss)
      BY <1>1, <2>1, <2>3
    <3>2. p[2] \in 1..Len(Imports(ss[p[1]]))
      BY <1>1, <2>1, <3>1
    <3>. QED  BY <2>1, <3>1, <3>2, PositionTypes
  <2>. QED  BY <2>2, <2>3
<1>5. ASSUME NEW k \in 1..Len(Imports(f))
      PROVE  <<Len(ss) + 1, k>> \in Positions(tt) /\ Named(tt, <<Len(ss) + 1, k>>) = Imports(f)[k]
  <2>. DEFINE p == <<Len(ss) + 1, k>>
  <2>1. p \in Nat \X Nat /\ p[1] = Len(ss) + 1 /\ p[2] = k /\ p[1] \in 1..Len(tt)
    BY <1>1, <1>2
  <2>. HIDE DEF p
  <2>2. tt[p[1]] = f
    BY <1>1, <2>1
  <2>3. p \in Positions(tt)
    BY <1>1, <2>1, <2>2, PositionTypes
  <2>4. Named(tt, p) = Imports(f)[k]
    BY <2>1, <2>2 DEF Named
  <2>. QED  BY <2>3, <2>4 DEF p
<1>6. Grown(ss, f, tt)
  BY <1>1, <1>3, <1>4, <1>5 DEF Grown
<1>. QED  BY <1>6 DEF tt

\* What is known stays known.
LEMMA KnownGrows ==
  ASSUME world \in Worlds, NEW ss \in Seq(Files), NEW f \in Files,
         NEW n \in Nat, n <= Len(ss), NEW p \in Positions(ss), Known(ss, n, p)
  PROVE  Known(Append(ss, f), n, p)
<1>1. PICK i \in 1..n : Means(ss[p[1]], Named(ss, p), ss[i])
  BY DEF Known
<1>. DEFINE tt == Append(ss, f)
<1>2. Grown(ss, f, tt)
  BY PositionsGrow
<1>. HIDE DEF tt
<1>3. i \in 1..Len(ss)
  BY <1>2 DEF Grown
<1>4. tt[i] = ss[i] /\ tt[p[1]] = ss[p[1]] /\ Named(tt, p) = Named(ss, p)
  BY <1>2, <1>3 DEF Grown
<1>5. Known(tt, n, p)
  BY <1>1, <1>4 DEF Known
<1>. QED  BY <1>5 DEF tt

\* What is awaited when the first import gives a new source: the rest, and then
\* the imports of that source.
LEMMA AwaitsGrow ==
  ASSUME world \in Worlds, NEW ss \in Seq(Files), NEW qs \in Seq(Request), qs # <<>>,
         NEW ps, Awaits(ss, qs, ps),
         NEW f \in Files, Means(ss[ps[1][1]], Named(ss, ps[1]), f)
  PROVE  \E new : Awaits(Append(ss, f), Tail(qs) \o Requests(f), new)
<1>. DEFINE tt  == Append(ss, f)
            own == [k \in 1..Len(Imports(f)) |-> <<Len(ss) + 1, k>>]
            new == Tail(ps) \o own
            rs  == Tail(qs) \o Requests(f)
<1>1. Grown(ss, f, tt)
  BY PositionsGrow
<1>2. /\ Requests(f) \in Seq(Request) /\ Len(Requests(f)) = Len(Imports(f))
      /\ Len(Imports(f)) \in Nat
      /\ \A k \in 1..Len(Imports(f)) : Requests(f)[k] = Asked(f, Imports(f)[k])
  BY RequestTypes, ImportTypes, LenProperties
<1>3. /\ ps \in Seq(Nat \X Nat) /\ Len(ps) = Len(qs)
      /\ \A m \in 1..Len(ps) :
            ps[m] \in Positions(ss) /\ qs[m] = Asked(ss[ps[m][1]], Named(ss, ps[m]))
      /\ \A m, n \in 1..Len(ps) : m < n => Earlier(ps[m], ps[n])
      /\ \A p \in Positions(ss) : (\E m \in 1..Len(ps) : ps[m] = p) \/ Known(ss, Len(ss), p)
  BY DEF Awaits
<1>4. own \in Seq(Nat \X Nat) /\ Len(own) = Len(Imports(f))
      /\ \A k \in 1..Len(own) : own[k] = <<Len(ss) + 1, k>>
  <2>1. own \in [1..Len(Imports(f)) -> Nat \X Nat]
    BY <1>1, <1>2 DEF Grown
  <2>2. own \in Seq(Nat \X Nat) /\ Len(own) = Len(Imports(f))
    BY <1>2, <2>1, SeqDef, LenProperties
  <2>. QED  BY <2>2
<1>. HIDE DEF own, tt
<1>5. /\ rs \in Seq(Request) /\ Len(qs) \in Nat \ {0}
      /\ Len(rs) = (Len(qs) - 1) + Len(Imports(f))
      /\ \A i \in 1..(Len(qs) - 1) : rs[i] = qs[i + 1]
      /\ \A k \in 1..Len(Imports(f)) : rs[(Len(qs) - 1) + k] = Requests(f)[k]
  <2>1. /\ rs \in Seq(Request) /\ Len(qs) \in Nat \ {0} /\ Len(Requests(f)) \in Nat
        /\ Len(rs) = (Len(qs) - 1) + Len(Requests(f))
        /\ \A i \in 1..(Len(qs) - 1) : rs[i] = qs[i + 1]
        /\ \A k \in 1..Len(Requests(f)) : rs[(Len(qs) - 1) + k] = Requests(f)[k]
    <3>1. Requests(f) \in Seq(Request)
      BY <1>2
    <3>. QED  BY <3>1, Moved
  <2>. HIDE DEF rs
  <2>. QED  BY <1>2, <2>1
<1>6. ps # <<>>
  BY <1>3, <1>5
<1>7. /\ new \in Seq(Nat \X Nat)
      /\ Len(new) = (Len(qs) - 1) + Len(Imports(f))
      /\ \A i \in 1..(Len(qs) - 1) : new[i] = ps[i + 1]
      /\ \A k \in 1..Len(Imports(f)) : new[(Len(qs) - 1) + k] = own[k]
  <2>1. /\ new \in Seq(Nat \X Nat) /\ Len(ps) \in Nat \ {0} /\ Len(own) \in Nat
        /\ Len(new) = (Len(ps) - 1) + Len(own)
        /\ \A i \in 1..(Len(ps) - 1) : new[i] = ps[i + 1]
        /\ \A k \in 1..Len(own) : new[(Len(ps) - 1) + k] = own[k]
    <3>1. ps \in Seq(Nat \X Nat) /\ own \in Seq(Nat \X Nat)
      BY <1>3, <1>4
    <3>. QED  BY <1>6, <3>1, Moved
  <2>. HIDE DEF new
  <2>. QED  BY <1>3, <1>4, <2>1
<1>. HIDE DEF new, rs
<1>8. ASSUME NEW m \in 1..Len(new)
      PROVE  \/ m \in 1..(Len(qs) - 1) /\ m + 1 \in 1..Len(ps)
             \/ \E k \in 1..Len(Imports(f)) : m = (Len(qs) - 1) + k
  <2>1. CASE m <= Len(qs) - 1
    BY <1>3, <1>5, <1>7, <2>1
  <2>2. CASE ~(m <= Len(qs) - 1)
    <3>. DEFINE before == Len(qs) - 1
    <3>1. before \in Nat /\ m \in Nat /\ m <= before + Len(Imports(f)) /\ m > before
      BY <1>2, <1>5, <1>7, <2>2
    <3>. HIDE DEF before
    <3>2. m - before \in 1..Len(Imports(f)) /\ m = before + (m - before)
      BY <1>2, <3>1
    <3>. QED  BY <3>2 DEF before
  <2>. QED  BY <2>1, <2>2
<1>9. ASSUME NEW m \in 1..Len(new)
      PROVE  new[m] \in Positions(tt) /\ rs[m] = Asked(tt[new[m][1]], Named(tt, new[m]))
  <2>1. CASE m \in 1..(Len(qs) - 1) /\ m + 1 \in 1..Len(ps)
    <3>1. new[m] = ps[m + 1] /\ rs[m] = qs[m + 1]
      BY <1>5, <1>7, <2>1
    <3>2. ps[m + 1] \in Positions(ss)
          /\ qs[m + 1] = Asked(ss[ps[m + 1][1]], Named(ss, ps[m + 1]))
      BY <1>3, <2>1
    <3>. QED  BY <1>1, <3>1, <3>2 DEF Grown
  <2>2. CASE \E k \in 1..Len(Imports(f)) : m = (Len(qs) - 1) + k
    <3>1. PICK k \in 1..Len(Imports(f)) : m = (Len(qs) - 1) + k
      BY <2>2
    <3>2. new[m] = <<Len(ss) + 1, k>> /\ rs[m] = Asked(f, Imports(f)[k])
      BY <1>2, <1>4, <1>5, <1>7, <3>1
    <3>3. new[m][1] = Len(ss) + 1
      BY <3>2
    <3>. QED  BY <1>1, <3>2, <3>3 DEF Grown
  <2>. QED  BY <1>8, <2>1, <2>2
<1>10. ASSUME NEW m \in 1..Len(new), NEW n \in 1..Len(new), m < n
       PROVE  Earlier(new[m], new[n])
  <2>1. CASE n \in 1..(Len(qs) - 1) /\ n + 1 \in 1..Len(ps)
    <3>1. m \in 1..(Len(qs) - 1) /\ m + 1 \in 1..Len(ps) /\ m + 1 < n + 1
      BY <1>3, <1>5, <1>7, <1>10, <2>1
    <3>2. Earlier(ps[m + 1], ps[n + 1])
      BY <1>3, <2>1, <3>1
    <3>. QED  BY <1>7, <2>1, <3>1, <3>2
  <2>2. CASE \E k \in 1..Len(Imports(f)) : n = (Len(qs) - 1) + k
    <3>1. PICK k \in 1..Len(Imports(f)) : n = (Len(qs) - 1) + k
      BY <2>2
    <3>2. new[n] = <<Len(ss) + 1, k>>
      BY <1>4, <1>7, <3>1
    <3>3. CASE m \in 1..(Len(qs) - 1) /\ m + 1 \in 1..Len(ps)
      <4>1. new[m] = ps[m + 1] /\ ps[m + 1] \in Positions(ss)
        BY <1>3, <1>7, <3>3
      <4>2. new[m][1] < Len(ss) + 1
        BY <1>1, <4>1 DEF Grown
      <4>. QED  BY <3>2, <4>2 DEF Earlier
    <3>4. CASE \E h \in 1..Len(Imports(f)) : m = (Len(qs) - 1) + h
      <4>1. PICK h \in 1..Len(Imports(f)) : m = (Len(qs) - 1) + h
        BY <3>4
      <4>2. new[m] = <<Len(ss) + 1, h>> /\ h < k
        <5>1. new[m] = <<Len(ss) + 1, h>>
          BY <1>4, <1>7, <4>1
        <5>2. h < k
          <6>. DEFINE before == Len(qs) - 1
          <6>1. before \in Int /\ h \in Int /\ k \in Int /\ before + h < before + k
            BY <1>2, <1>5, <1>10, <3>1, <4>1
          <6>. HIDE DEF before
          <6>. QED  BY <6>1
        <5>. QED  BY <5>1, <5>2
      <4>. QED  BY <3>2, <4>2 DEF Earlier
    <3>. QED  BY <1>8, <3>3, <3>4
  <2>. QED  BY <1>8, <2>1, <2>2
<1>11. ASSUME NEW p \in Positions(tt)
       PROVE  (\E m \in 1..Len(new) : new[m] = p) \/ Known(tt, Len(tt), p)
  <2>1. CASE \E k \in 1..Len(Imports(f)) : p = <<Len(ss) + 1, k>>
    <3>1. PICK k \in 1..Len(Imports(f)) : p = <<Len(ss) + 1, k>>
      BY <2>1
    <3>2. (Len(qs) - 1) + k \in 1..Len(new)
      <4>. DEFINE before == Len(qs) - 1
      <4>1. before \in Nat /\ k \in 1..Len(Imports(f)) /\ Len(new) = before + Len(Imports(f))
        BY <1>5, <1>7, <3>1
      <4>. HIDE DEF before
      <4>2. before + k \in 1..Len(new)
        BY <1>2, <4>1
      <4>. QED  BY <4>2 DEF before
    <3>3. new[(Len(qs) - 1) + k] = p
      BY <1>4, <1>7, <3>1
    <3>. QED  BY <3>2, <3>3
  <2>2. CASE p \in Positions(ss) /\ Known(ss, Len(ss), p)
    <3>1. Len(ss) <= Len(ss)
      BY <1>1 DEF Grown
    <3>2. Known(tt, Len(ss), p)
      BY <1>1, <2>2, <3>1, KnownGrows DEF tt, Grown
    <3>. QED  BY <1>1, <3>2 DEF Known, Grown
  <2>3. CASE p \in Positions(ss) /\ \E m \in 1..Len(ps) : ps[m] = p
    <3>1. PICK m \in 1..Len(ps) : ps[m] = p
      BY <2>3
    <3>2. CASE m = 1
      <4>1. Means(tt[p[1]], Named(tt, p), tt[Len(ss) + 1])
        BY <1>1, <2>3, <3>1, <3>2 DEF Grown
      <4>. QED  BY <1>1, <4>1 DEF Known, Grown
    <3>3. CASE m # 1
      <4>1. m - 1 \in 1..(Len(qs) - 1) /\ m - 1 \in 1..Len(new) /\ (m - 1) + 1 = m
        BY <1>2, <1>3, <1>5, <1>7, <3>1, <3>3
      <4>2. new[m - 1] = p
        BY <1>7, <3>1, <4>1
      <4>. QED  BY <4>1, <4>2
    <3>. QED  BY <3>2, <3>3
  <2>. QED  BY <1>1, <1>3, <2>1, <2>2, <2>3 DEF Grown
<1>12. Len(new) = Len(rs)
  BY <1>5, <1>7
<1>13. Awaits(tt, rs, new)
  BY <1>7, <1>9, <1>10, <1>11, <1>12 DEF Awaits
<1>. QED  BY <1>13 DEF tt, rs

\* A source is there for the same reason when more are read.
LEMMA LeadsGrow ==
  ASSUME world \in Worlds, NEW ss \in Seq(Files), NEW f \in Files,
         NEW j \in 2..Len(ss), NEW p, Leads(ss, j, p)
  PROVE  Leads(Append(ss, f), j, p)
<1>. DEFINE tt == Append(ss, f)
<1>1. Grown(ss, f, tt)
  BY PositionsGrow
<1>2. /\ p \in Positions(ss) /\ p[1] < j /\ Means(ss[p[1]], Named(ss, p), ss[j])
      /\ \A r \in Positions(ss) : Earlier(r, p) => Known(ss, j - 1, r)
  BY DEF Leads
<1>3. j \in Nat /\ j \in 1..Len(ss) /\ j - 1 \in Nat /\ j - 1 <= Len(ss)
  BY <1>1 DEF Grown
<1>. HIDE DEF tt
<1>4. Means(tt[p[1]], Named(tt, p), tt[j])
  BY <1>1, <1>2, <1>3 DEF Grown
<1>5. ASSUME NEW r \in Positions(tt), Earlier(r, p)
      PROVE  Known(tt, j - 1, r)
  <2>1. r \in Positions(ss)
    <3>1. ASSUME NEW k \in 1..Len(Imports(f)), r = <<Len(ss) + 1, k>> PROVE FALSE
      <4>1. r[1] = Len(ss) + 1 /\ p[1] \in Nat /\ p[1] < Len(ss) + 1
        BY <1>1, <1>2, <3>1 DEF Grown
      <4>. QED  BY <1>1, <1>5, <4>1 DEF Earlier, Grown
    <3>. QED  BY <1>1, <3>1 DEF Grown
  <2>2. Known(ss, j - 1, r)
    BY <1>2, <1>5, <2>1
  <2>. QED  BY <1>3, <2>1, <2>2, KnownGrows DEF tt
<1>6. p \in Positions(tt)
  BY <1>1, <1>2 DEF Grown
<1>7. Leads(tt, j, p)
  BY <1>2, <1>4, <1>5, <1>6 DEF Leads
<1>. QED  BY <1>7 DEF tt


\* The first import that is not known yet gives the next source.
LEMMA ReadBreadthFirst ==
  ASSUME Inductive, BreadthFirst, result = "none", Started, queue # <<>>,
         Resolves(Head(queue)), NEW f, f = Target(Head(queue)),
         sources' = Append(sources, f), queue' = Tail(queue) \o Requests(f), world' = world
  PROVE  BreadthFirst'
<1>. DEFINE ss == sources
            tt == Append(sources, f)
<1>1. /\ world \in Worlds /\ ss \in Seq(Files) /\ queue \in Seq(Request) /\ f \in Files
      /\ Len(ss) \in Nat \ {0}
  BY LenProperties, EmptySeq DEF Inductive, TypeOK, Resolves, Target, Started
<1>2. PICK ps : Awaits(ss, queue, ps)
  BY DEF BreadthFirst
<1>3. /\ ps[1] \in Positions(ss) /\ Means(ss[ps[1][1]], Named(ss, ps[1]), f)
      /\ \A r \in Positions(ss) : Earlier(r, ps[1]) => Known(ss, Len(ss), r)
  BY <1>2, FirstAwaited
<1>4. Grown(ss, f, tt)
  BY <1>1, PositionsGrow
<1>5. \E new : Awaits(tt, Tail(queue) \o Requests(f), new)
  BY <1>1, <1>2, <1>3, AwaitsGrow
<1>6. Leads(tt, Len(ss) + 1, ps[1])
  <2>. HIDE DEF tt
  <2>1. /\ ps[1] \in Positions(tt) /\ ps[1][1] \in Nat /\ ps[1][1] < Len(ss) + 1
        /\ Means(tt[ps[1][1]], Named(tt, ps[1]), tt[Len(ss) + 1])
    BY <1>3, <1>4 DEF Grown
  <2>2. ASSUME NEW r \in Positions(tt), Earlier(r, ps[1])
        PROVE  Known(tt, (Len(ss) + 1) - 1, r)
    <3>1. r \in Positions(ss)
      <4>1. ASSUME NEW k \in 1..Len(Imports(f)), r = <<Len(ss) + 1, k>> PROVE FALSE
        BY <1>1, <2>1, <2>2, <4>1 DEF Earlier
      <4>. QED  BY <1>4, <4>1 DEF Grown
    <3>2. Known(ss, Len(ss), r) /\ Len(ss) \in Nat /\ Len(ss) <= Len(ss)
      BY <1>1, <1>3, <2>2, <3>1
    <3>3. Known(tt, Len(ss), r)
      BY <1>1, <3>1, <3>2, KnownGrows DEF tt
    <3>4. (Len(ss) + 1) - 1 = Len(ss)
      BY <1>1
    <3>. QED  BY <3>3, <3>4
  <2>. QED  BY <2>1, <2>2 DEF Leads
<1>7. ASSUME NEW j \in 2..Len(tt)
      PROVE  \E p : Leads(tt, j, p)
  <2>1. CASE j = Len(ss) + 1
    BY <1>6, <2>1
  <2>2. CASE j # Len(ss) + 1
    <3>1. j \in 2..Len(ss)
      BY <1>1, <1>4, <2>2 DEF Grown
    <3>2. PICK p : Leads(ss, j, p)
      BY <3>1 DEF BreadthFirst
    <3>3. Leads(tt, j, p)
      BY <1>1, <3>1, <3>2, LeadsGrow
    <3>. QED  BY <3>3
  <2>. QED  BY <2>1, <2>2
<1>8. sources'[1] = world.root
  BY <1>1, <1>4 DEF BreadthFirst, Grown
<1>9. \E new : Awaits(sources, queue, new)'
  <2>1. PICK new : Awaits(tt, Tail(queue) \o Requests(f), new)
    BY <1>5
  <2>2. Awaits(sources, queue, new)'
    BY <2>1, OrderStays
  <2>. QED  BY <2>2
<1>10. ASSUME NEW j \in 2..Len(sources')
       PROVE  \E p : Leads(sources, j, p)'
  <2>1. PICK p : Leads(tt, j, p)
    BY <1>7
  <2>2. Leads(sources, j, p)'
    BY <2>1, OrderStays
  <2>. QED  BY <2>2
<1>. QED  BY <1>8, <1>9, <1>10 DEF BreadthFirst

\* Neither a failure nor the end of the call changes what was read.
LEMMA StillBreadthFirst ==
  ASSUME BreadthFirst, UNCHANGED <<world, sources, queue>>
  PROVE  BreadthFirst'
<1>1. \E ps : Awaits(sources, queue, ps)'
  BY OrderStays DEF BreadthFirst
<1>2. \A j \in 2..Len(sources') : \E p : Leads(sources, j, p)'
  BY OrderStays DEF BreadthFirst
<1>3. Started' => sources'[1] = world'.root
  BY DEF BreadthFirst, Started
<1>. QED  BY <1>1, <1>2, <1>3 DEF BreadthFirst

\* Every step of spec_from_files reads in the order of the imports: what is in
\* the queue is, in order, every import that no source answers yet.
THEOREM SearchIsBreadthFirst == Spec => []BreadthFirst
<1>1. Inductive /\ BreadthFirst /\ [Next]_vars => BreadthFirst'
  <2>. SUFFICES ASSUME Inductive, BreadthFirst, [Next]_vars PROVE BreadthFirst'
    OBVIOUS
  <2>1. CASE ReadRoot
    <3>1. CASE world.root \in NoFile \/ world.root \notin world.readable
      BY <2>1, <3>1, StillBreadthFirst DEF ReadRoot, Fail, progress
    <3>2. CASE ~(world.root \in NoFile \/ world.root \notin world.readable)
      BY <2>1, <3>2, RootBreadthFirst DEF ReadRoot
    <3>. QED  BY <3>1, <3>2
  <2>2. CASE TakeImport
    <3>. DEFINE f == Target(Head(queue))
    <3>1. result = "none" /\ Started /\ queue # <<>>
      BY <2>2 DEF TakeImport
    <3>2. CASE ~Resolves(Head(queue))
      BY <2>2, <3>2, StillBreadthFirst DEF TakeImport, Fail, progress
    <3>3. CASE Resolves(Head(queue)) /\ f \in visited
      BY <2>2, <3>1, <3>3, SkipBreadthFirst DEF TakeImport, Skipped
    <3>4. CASE Resolves(Head(queue)) /\ f \notin visited /\ f \notin world.readable
      BY <2>2, <3>4, StillBreadthFirst DEF TakeImport, Read
    <3>5. CASE Resolves(Head(queue)) /\ f \notin visited /\ f \in world.readable
      <4>1. sources' = Append(sources, f) /\ queue' = Tail(queue) \o Requests(f) /\ world' = world
        BY <2>2, <3>5 DEF TakeImport, Read, Enqueued
      <4>. QED  BY <3>1, <3>5, <4>1, ReadBreadthFirst
    <3>. QED  BY <3>2, <3>3, <3>4, <3>5
  <2>3. CASE Finish
    BY <2>3, StillBreadthFirst DEF Finish, progress
  <2>4. CASE UNCHANGED vars
    BY <2>4, StillBreadthFirst DEF vars, progress
  <2>. QED  BY <2>1, <2>2, <2>3, <2>4 DEF Next
<1>. QED  BY <1>1, InitBreadthFirst, SearchInvariant, PTL DEF Spec

\* The imports that mean a source are those at its positions.
LEMMA CallsArePositions ==
  ASSUME Inductive, NEW j, NEW p
  PROVE  p \in Calls(j) <=>
            p \in Positions(sources) /\ Means(sources[p[1]], Named(sources, p), sources[j])
<1>1. ASSUME p \in Calls(j)
      PROVE  p \in Positions(sources) /\ Means(sources[p[1]], Named(sources, p), sources[j])
  <2>1. PICK i \in 1..Len(sources) : \E k \in 1..Len(Imports(sources[i])) :
           p = <<i, k>> /\ Means(sources[i], Imports(sources[i])[k], sources[j])
    BY <1>1 DEF Calls, Imports
  <2>2. PICK k \in 1..Len(Imports(sources[i])) :
           p = <<i, k>> /\ Means(sources[i], Imports(sources[i])[k], sources[j])
    BY <2>1
  <2>3. p[1] = i /\ p[2] = k /\ p \in {i} \X (1..Len(Imports(sources[i])))
    BY <2>2
  <2>. QED  BY <2>2, <2>3 DEF Positions, Named
<1>2. ASSUME p \in Positions(sources), Means(sources[p[1]], Named(sources, p), sources[j])
      PROVE  p \in Calls(j)
  <2>1. /\ p \in Nat \X Nat
        /\ p[1] \in 1..Len(sources) /\ p[2] \in 1..Len(Imports(sources[p[1]]))
    BY <1>2, PositionTypes DEF Inductive, TypeOK
  <2>2. p = <<p[1], p[2]>>
    BY <2>1
  <2>. QED  BY <1>2, <2>1, <2>2 DEF Calls, Imports, Named
<1>. QED  BY <1>1, <1>2

\* The import that leads to a source is the first that means it.
LEMMA LeaderIsFirst ==
  ASSUME Inductive, NEW j \in 2..Len(sources), NEW p, Leads(sources, j, p)
  PROVE  /\ p \in Calls(j) /\ p[1] < j
         /\ \A r \in Calls(j) : ~Earlier(r, p)
         /\ \A i \in 1..(j - 1) : p \notin Calls(i)
<1>1. /\ p \in Positions(sources) /\ p[1] < j
      /\ Means(sources[p[1]], Named(sources, p), sources[j])
      /\ \A r \in Positions(sources) : Earlier(r, p) => Known(sources, j - 1, r)
  BY DEF Leads
<1>2. \A i \in 1..(j - 1) : sources[i] # sources[j]
  <2>1. \A i, k \in 1..Len(sources) : sources[i] = sources[k] => i = k
    BY DEF Inductive, SourcesAreVisited
  <2>2. Len(sources) \in Nat
    BY LenProperties DEF Inductive, TypeOK
  <2>3. j \in 1..Len(sources) /\ \A i \in 1..(j - 1) : i \in 1..Len(sources) /\ i # j
    BY <2>2
  <2>. QED  BY <2>1, <2>3
<1>3. \A f, n, g, h : Means(f, n, g) /\ Means(f, n, h) => g = h
  BY DEF Means
<1>4. ASSUME NEW r \in Calls(j), Earlier(r, p) PROVE FALSE
  <2>1. r \in Positions(sources) /\ Means(sources[r[1]], Named(sources, r), sources[j])
    BY CallsArePositions
  <2>2. PICK i \in 1..(j - 1) : Means(sources[r[1]], Named(sources, r), sources[i])
    BY <1>1, <1>4, <2>1 DEF Known
  <2>. QED  BY <1>2, <1>3, <2>1, <2>2
<1>5. ASSUME NEW i \in 1..(j - 1), p \in Calls(i) PROVE FALSE
  <2>1. Means(sources[p[1]], Named(sources, p), sources[i])
    BY <1>5, CallsArePositions
  <2>. QED  BY <1>1, <1>2, <1>3, <2>1
<1>6. p \in Calls(j)
  BY <1>1, CallsArePositions
<1>. QED  BY <1>1, <1>4, <1>5, <1>6

\* "Sources are breadth-first with the root first": in every state, finished or
\* not, each source comes after those that are imported before it.
THEOREM ClosureInOrder == Spec => []ClosureIsBreadthFirst
<1>1. Inductive /\ BreadthFirst => ClosureIsBreadthFirst
  <2>. SUFFICES ASSUME Inductive, BreadthFirst PROVE ClosureIsBreadthFirst
    OBVIOUS
  <2>1. Started => sources[1] = world.root
    BY DEF BreadthFirst
  <2>2. ASSUME NEW j \in 2..Len(sources)
        PROVE  \E p \in Calls(j) :
                  /\ p[1] < j
                  /\ j > 2 => \E q \in Calls(j - 1) :
                        /\ Earlier(q, p)
                        /\ \A r \in Calls(j) : ~Earlier(r, p)
    <3>1. PICK p : Leads(sources, j, p)
      BY <2>2 DEF BreadthFirst
    <3>2. /\ p \in Calls(j) /\ p[1] < j
          /\ \A r \in Calls(j) : ~Earlier(r, p)
          /\ \A i \in 1..(j - 1) : p \notin Calls(i)
      BY <3>1, LeaderIsFirst
    <3>3. ASSUME j > 2
          PROVE  \E q \in Calls(j - 1) : Earlier(q, p)
      <4>1. Len(sources) \in Nat /\ j - 1 \in 2..Len(sources) /\ j - 1 \in 1..(j - 1)
        BY <3>3, LenProperties DEF Inductive, TypeOK
      <4>2. PICK q : Leads(sources, j - 1, q)
        BY <4>1 DEF BreadthFirst
      <4>3. q \in Calls(j - 1)
        BY <4>1, <4>2, LeaderIsFirst
      <4>4. /\ p \in Positions(sources) /\ Means(sources[p[1]], Named(sources, p), sources[j])
            /\ q \in Positions(sources)
        BY <3>1, <4>2 DEF Leads
      <4>5. p \in Nat \X Nat /\ q \in Nat \X Nat
        BY <4>4, PositionTypes DEF Inductive, TypeOK
      <4>6. ~Earlier(p, q)
        <5>1. SUFFICES ASSUME Earlier(p, q) PROVE FALSE
          OBVIOUS
        <5>2. PICK i \in 1..((j - 1) - 1) : Means(sources[p[1]], Named(sources, p), sources[i])
          BY <4>2, <4>4, <5>1 DEF Leads, Known
        <5>3. p \in Calls(i) /\ i \in 1..(j - 1)
          BY <4>1, <4>4, <5>2, CallsArePositions
        <5>. QED  BY <3>2, <5>3
      <4>7. p # q
        BY <3>2, <4>1, <4>3
      <4>8. Earlier(q, p)
        <5>1. /\ p = <<p[1], p[2]>> /\ q = <<q[1], q[2]>>
              /\ p[1] \in Nat /\ p[2] \in Nat /\ q[1] \in Nat /\ q[2] \in Nat
          BY <4>5
        <5>. QED  BY <4>6, <4>7, <5>1 DEF Earlier
      <4>. QED  BY <4>3, <4>8
    <3>. QED  BY <3>2, <3>3
  <2>. QED  BY <2>1, <2>2 DEF ClosureIsBreadthFirst
<1>. QED  BY <1>1, SearchInvariant, SearchIsBreadthFirst, PTL

=============================================================================
