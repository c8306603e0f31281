----------------------------- MODULE ElfClosure -----------------------------
(***************************************************************************)
(* hardener/elf.go: ResolveELFDependencies.  First the library search path *)
(* is read from the image's ld.so.conf; then, from every observed path     *)
(* that leads to an ELF file, the recursion of resolve() adds the program  *)
(* interpreter and the needed libraries to the manifest.  The Go call      *)
(* stack is the variable stack, one frame per active resolve().            *)
(*                                                                         *)
(* Paths are model values: Real is resolveInRoot (NoPath for a path that   *)
(* does not resolve), At the path a directory and a library name spell     *)
(* (without "..", so that cleaning it does not change where it leads).     *)
(* What else the image's files say is the record image.  I/O errors are    *)
(* left out except those of ImportedLibraries.                             *)
(***************************************************************************)
EXTENDS Integers, Sequences, FiniteSets

CONSTANTS
    Paths,      \* in-image paths
    Libs,       \* DT_NEEDED names
    Dirs,       \* directories of search paths
    Confs,      \* ld.so.conf and the files it may include
    MainConf,   \* /etc/ld.so.conf
    Standard,   \* standardLibPaths
    NoPath,
    Elfs,       \* the paths of files elf.Open accepts
    Real, At,
    Images      \* the images considered

Line == [kind : {"dir"}, dir : Dirs] \cup [kind : {"include"}, confs : Seq(Confs)]

Image == [observed : SUBSET Paths,              \* m.Files on entry
          interp : [Paths -> Paths \cup {NoPath}],
          needed : [Paths -> Seq(Libs)],
          unreadable : SUBSET Paths,            \* ImportedLibraries fails
          rpath : [Paths -> Seq(Dirs)],
          runpath : [Paths -> Seq(Dirs)],
          conf : [Confs -> Seq(Line)]]

ASSUME ElfAssumption ==
    /\ NoPath \notin Paths
    /\ Elfs \subseteq Paths
    /\ Real \in [Paths -> Paths \cup {NoPath}]
    /\ At \in [Dirs \X Libs -> Paths]
    /\ MainConf \in Confs
    /\ Standard \in Seq(Dirs)
    /\ Images \subseteq Image

VARIABLES
    image,      \* the extracted image (never changes)
    reading,    \* calls of parseLdSoConfFile: the lines each has left
    seen,       \* its circular include guard
    ldPaths,    \* search directories so far
    seeds,      \* observed paths not yet looked at
    stack,      \* active calls of resolve
    visited,    \* its cycle guard: canonical paths
    files,      \* keys of m.Files
    from,       \* InferredFrom of each added path
    unresolved, \* what ResolveELFDependencies will return: <<ELF, library>>
    abandoned,  \* history: ELFs whose resolve() returned an error
    outcome     \* "conf", "run", "done" or "error"

confVars == <<reading, seen, ldPaths>>
resultVars == <<files, from, unresolved>>
vars == <<image, confVars, seeds, stack, visited, resultVars, abandoned, outcome>>

Frame == [elf : Paths,
          label : Paths,        \* manifestPath, the InferredFrom label
          interp : BOOLEAN,     \* called for a PT_INTERP: the caller drops an error
          next : Nat,           \* 0: PT_INTERP; n: the n-th needed library
          await : BOOLEAN,      \* the call for the library next is active
          unresolved : SUBSET (Paths \X Libs)]

Init ==
    /\ image \in Images
    /\ reading = <<image.conf[MainConf]>>
    /\ seen = {MainConf}
    /\ ldPaths = <<>>
    /\ seeds = image.observed
    /\ stack = <<>>
    /\ visited = {}
    /\ files = image.observed
    /\ from = [p \in {} |-> NoPath]
    /\ unresolved = {}
    /\ abandoned = {}
    /\ outcome = "conf"

-----------------------------------------------------------------------------
(* parseLdSoConfFile *)

ConfTop == reading[Len(reading)]
ConfRest == [reading EXCEPT ![Len(reading)] = Tail(@)]

ReadDirectory ==
    /\ outcome = "conf"
    /\ reading # <<>>
    /\ ConfTop # <<>>
    /\ Head(ConfTop).kind = "dir"
    /\ ldPaths' = Append(ldPaths, Head(ConfTop).dir)
    /\ reading' = ConfRest
    /\ UNCHANGED <<image, seen, seeds, stack, visited, resultVars, abandoned, outcome>>

\* mutant: a match that was read before is not skipped
ReadIncludeKeepsMatch ==
    /\ outcome = "conf"
    /\ reading # <<>>
    /\ ConfTop # <<>>
    /\ Head(ConfTop).kind = "include"
    /\ LET confs == Head(ConfTop).confs
       IN  IF confs = <<>> THEN reading' = ConfRest
           ELSE IF Head(confs) \in seen THEN reading' = reading
           ELSE reading' = Append(ConfRest, image.conf[Head(confs)])
    /\ seen' = seen \cup {Head(ConfTop).confs[i] : i \in 1 .. 1 \cap DOMAIN Head(ConfTop).confs}
    /\ UNCHANGED <<image, ldPaths, seeds, stack, visited, resultVars, abandoned, outcome>>

\* An include line: its matches are read one after the other, each at most
\* once in the whole parse; the line is dropped when none is left.
ReadInclude ==
    /\ outcome = "conf"
    /\ reading # <<>>
    /\ ConfTop # <<>>
    /\ Head(ConfTop).kind = "include"
    /\ LET confs == Head(ConfTop).confs
           left  == [reading EXCEPT ![Len(reading)] =
                        <<[kind |-> "include", confs |-> Tail(confs)]>> \o Tail(@)]
       IN  \/ /\ confs = <<>>
              /\ reading' = ConfRest
              /\ UNCHANGED seen
           \/ /\ confs # <<>>
              /\ seen' = seen \cup {Head(confs)}
              /\ reading' = IF Head(confs) \in seen THEN left
                            ELSE Append(left, image.conf[Head(confs)])
    /\ UNCHANGED <<image, ldPaths, seeds, stack, visited, resultVars, abandoned, outcome>>

EndOfConf ==
    /\ outcome = "conf"
    /\ reading # <<>>
    /\ ConfTop = <<>>
    /\ reading' = SubSeq(reading, 1, Len(reading) - 1)
    /\ UNCHANGED <<image, seen, ldPaths, seeds, stack, visited, resultVars, abandoned, outcome>>

\* ldPaths: append(ldPaths, standardLibPaths...)
StartResolving ==
    /\ outcome = "conf"
    /\ reading = <<>>
    /\ ldPaths' = ldPaths \o Standard
    /\ outcome' = "run"
    /\ UNCHANGED <<image, reading, seen, seeds, stack, visited, resultVars, abandoned>>

-----------------------------------------------------------------------------
(* buildSearchPaths and findLib *)

\* mutant: DT_RUNPATH does not cancel DT_RPATH
SearchPathsBoth(e) == image.rpath[e] \o image.runpath[e] \o ldPaths

SearchPaths(e) ==
    (IF image.runpath[e] # <<>> THEN image.runpath[e] ELSE image.rpath[e]) \o ldPaths

\* Positions of a search path where a library is found: a dangling or looping
\* candidate is skipped.
Hits(lib, dirs) == {i \in 1 .. Len(dirs) : Real[At[<<dirs[i], lib>>]] # NoPath}

\* The path a library is found under (the first hit), NoPath if nowhere.
FindLib(lib, dirs) ==
    IF Hits(lib, dirs) = {} THEN NoPath
    ELSE LET i == CHOOSE i \in Hits(lib, dirs) : \A j \in Hits(lib, dirs) : i <= j
         IN  At[<<dirs[i], lib>>]

Found(e, n) == FindLib(image.needed[e][n], SearchPaths(e))

HasInterp(e) == image.interp[e] # NoPath /\ Real[image.interp[e]] # NoPath

-----------------------------------------------------------------------------
(* resolve *)

Top == stack[Len(stack)]
WithTop(f) == [stack EXCEPT ![Len(stack)] = f]

\* mutant: the label of an entry the manifest has is overwritten
AddInferredOverwrites(new, label) ==
    /\ files' = files \cup new
    /\ from' = [p \in DOMAIN from \cup new |-> IF p \in new THEN label ELSE from[p]]

\* m.Files gains the path unless it has it; the entry it has is kept.
AddInferred(new, label) ==
    /\ files' = files \cup new
    /\ from' = [p \in DOMAIN from \cup (new \ files) |->
                   IF p \in new \ files THEN label ELSE from[p]]

\* The error of a resolve() called on top of the calls s returns through every
\* caller up to one that was itself called for an interpreter: its caller drops
\* the error with all that was unresolved.  Without one it ends the resolution.
Catchers(s) == {i \in 1 .. Len(s) : s[i].interp}
\* mutant: the calls in between go on
FailKeepsStack(s) ==
    /\ stack' = s
    /\ abandoned' = abandoned \cup {s[Len(s)].elf}
    /\ outcome' = IF Catchers(s) = {} THEN "error" ELSE outcome

Fail(s) ==
    LET k == IF Catchers(s) = {} THEN 1
             ELSE CHOOSE i \in Catchers(s) : \A j \in Catchers(s) : j <= i
    IN  /\ stack' = SubSeq(s, 1, k - 1)
        /\ abandoned' = abandoned \cup {s[i].elf : i \in k .. Len(s)}
        /\ outcome' = IF Catchers(s) = {} THEN "error" ELSE outcome

\* The call resolve(real, label) made with the calls s active: it returns at
\* once for a path seen before and for one that is no ELF file.
Call(s, real, label, interp) ==
    LET frame == [elf |-> real, label |-> label, interp |-> interp, next |-> 0,
                  await |-> FALSE, unresolved |-> {}]
    IN  /\ visited' = visited \cup {real}
        /\ \/ /\ real \in visited \/ real \notin Elfs
              /\ stack' = s
              /\ UNCHANGED <<abandoned, outcome>>
           \/ /\ real \in Elfs \ visited
              /\ real \notin image.unreadable
              /\ stack' = Append(s, frame)
              /\ UNCHANGED <<abandoned, outcome>>
           \/ /\ real \in Elfs \ visited
              /\ real \in image.unreadable
              /\ Fail(Append(s, frame))

\* Seeds come in the order of Go's map iteration.
Seed(p) ==
    /\ outcome = "run"
    /\ stack = <<>>
    /\ p \in seeds
    /\ seeds' = seeds \ {p}
    /\ \/ /\ Real[p] \in Elfs
          /\ Call(<<>>, Real[p], p, FALSE)
       \/ /\ Real[p] \notin Elfs
          /\ UNCHANGED <<stack, visited, abandoned, outcome>>
    /\ UNCHANGED <<image, confVars, resultVars>>

\* mutant: the interpreter is added, its own needs are not looked at
ResolveInterpShallow ==
    /\ outcome = "run"
    /\ stack # <<>>
    /\ Top.next = 0
    /\ AddInferred(IF HasInterp(Top.elf) THEN {image.interp[Top.elf]} ELSE {}, Top.label)
    /\ stack' = WithTop([Top EXCEPT !.next = 1])
    /\ UNCHANGED <<image, confVars, seeds, visited, unresolved, abandoned, outcome>>

ResolveInterp ==
    /\ outcome = "run"
    /\ stack # <<>>
    /\ Top.next = 0
    /\ LET interp == image.interp[Top.elf]
           s == WithTop([Top EXCEPT !.next = 1])
       IN  \/ /\ HasInterp(Top.elf)
              /\ AddInferred({interp}, Top.label)
              /\ Call(s, Real[interp], interp, TRUE)
           \/ /\ ~HasInterp(Top.elf)
              /\ stack' = s
              /\ UNCHANGED <<files, from, visited, abandoned, outcome>>
    /\ UNCHANGED <<image, confVars, seeds, unresolved>>

AtLib == outcome = "run" /\ stack # <<>> /\ Top.next \in 1 .. Len(image.needed[Top.elf])

ResolveLib ==
    /\ AtLib
    /\ ~Top.await
    /\ LET path == Found(Top.elf, Top.next)
       IN  \/ /\ path = NoPath
              /\ stack' = WithTop([Top EXCEPT !.next = @ + 1,
                                   !.unresolved = @ \cup
                                       {<<Top.elf, image.needed[Top.elf][Top.next]>>}])
              /\ UNCHANGED <<files, from, visited, abandoned, outcome>>
           \/ /\ path # NoPath
              /\ AddInferred({path}, Top.label)
              /\ Call(WithTop([Top EXCEPT !.await = TRUE]), Real[path], path, FALSE)
    /\ UNCHANGED <<image, confVars, seeds, unresolved>>

\* mutant: the real location behind a link is forgotten
LibResolvedWithoutReal ==
    /\ AtLib
    /\ Top.await
    /\ stack' = WithTop([Top EXCEPT !.next = @ + 1, !.await = FALSE])
    /\ UNCHANGED <<image, confVars, seeds, visited, resultVars, abandoned, outcome>>

\* After the call for a library has returned, its real location is added too.
LibResolved ==
    /\ AtLib
    /\ Top.await
    /\ AddInferred({Real[Found(Top.elf, Top.next)]}, Top.label)
    /\ stack' = WithTop([Top EXCEPT !.next = @ + 1, !.await = FALSE])
    /\ UNCHANGED <<image, confVars, seeds, visited, unresolved, abandoned, outcome>>

\* resolve returns: its caller, or ResolveELFDependencies, appends what it
\* could not resolve.
ResolveReturns ==
    /\ outcome = "run"
    /\ stack # <<>>
    /\ Top.next = Len(image.needed[Top.elf]) + 1
    /\ LET n == Len(stack) - 1
           below == SubSeq(stack, 1, n)
       IN  \/ /\ n = 0
              /\ stack' = <<>>
              /\ unresolved' = unresolved \cup Top.unresolved
           \/ /\ n > 0
              /\ stack' = [below EXCEPT ![n].unresolved = @ \cup Top.unresolved]
              /\ UNCHANGED unresolved
    /\ UNCHANGED <<image, confVars, seeds, visited, files, from, abandoned, outcome>>

Finish ==
    /\ outcome = "run"
    /\ stack = <<>>
    /\ seeds = {}
    /\ outcome' = "done"
    /\ UNCHANGED <<image, confVars, seeds, stack, visited, resultVars, abandoned>>

ReadConf == ReadDirectory \/ ReadInclude \/ EndOfConf \/ StartResolving
Resolve == ResolveInterp \/ ResolveLib \/ LibResolved \/ ResolveReturns

Next == ReadConf \/ (\E p \in seeds : Seed(p)) \/ Resolve \/ Finish

Spec == Init /\ [][Next]_vars
FairSpec == Spec /\ WF_vars(Next)

-----------------------------------------------------------------------------
(* Properties *)

TypeOK ==
    /\ image \in Image
    /\ reading \in Seq(Seq(Line))
    /\ seen \subseteq Confs
    /\ ldPaths \in Seq(Dirs)
    /\ seeds \subseteq image.observed
    /\ stack \in Seq(Frame)
    /\ visited \subseteq Paths
    /\ files \subseteq Paths
    /\ unresolved \subseteq Paths \X Libs
    /\ abandoned \subseteq Paths
    /\ outcome \in {"conf", "run", "done", "error"}
    /\ outcome # "run" => stack = <<>>

\* What the dynamic linker opens for the n-th needed library of e: DT_RUNPATH
\* cancels DT_RPATH, the system's directories come last.
Loaded(e, n) ==
    LET embedded == IF image.runpath[e] = <<>> THEN image.rpath[e] ELSE image.runpath[e]
    IN  FindLib(image.needed[e][n], embedded \o ldPaths)

\* The names under which the ELF file e reaches what it depends on, and where
\* they lead.
LibNames(e) == {Loaded(e, n) : n \in 1 .. Len(image.needed[e])} \ {NoPath}
InterpNames(e) == IF HasInterp(e) THEN {image.interp[e]} ELSE {}
DependsOn(e) == {Real[p] : p \in LibNames(e) \cup InterpNames(e)}

Closed(S) == \A e \in S : DependsOn(e) \cap Elfs \subseteq S

\* Nothing is added that the observed files do not need: whatever the order of
\* seeds and calls, resolve() stays inside every set of files that holds the
\* ELF files observed and is closed under dependency.
OnlyNeeded ==
    outcome # "conf" =>
        \A S \in SUBSET Elfs :
            /\ {Real[p] : p \in image.observed} \cap Elfs \subseteq S
            /\ Closed(S)
            => visited \cap Elfs \subseteq S

\* The call for the library or interpreter that e is at has not returned.
Active(e) == \E i \in 1 .. Len(stack) : stack[i].elf = e

\* resolve() is done with the n-th needed library of e: it is in the manifest
\* under the name it is found by and under its real location, and has been
\* visited itself.
Included(e, n) ==
    /\ {Loaded(e, n), Real[Loaded(e, n)]} \subseteq files
    /\ Real[Loaded(e, n)] \in visited

\* What ResolveELFDependencies has been told is missing, or will be.
Reported == unresolved \cup UNION {stack[i].unresolved : i \in 1 .. Len(stack)}

\* The doc comment of ResolveELFDependencies: every dependency is in the
\* manifest or among the unresolved.  A visited ELF file whose resolve() has
\* returned without error has its libraries included, and, unless some
\* resolve() has failed, the others reported; cycles and revisits included.
EveryNeedAccounted ==
    \A e \in visited \cap Elfs :
        ~Active(e) /\ e \notin abandoned =>
            \A n \in 1 .. Len(image.needed[e]) :
                IF Loaded(e, n) # NoPath THEN Included(e, n)
                ELSE abandoned = {} => <<e, image.needed[e][n]>> \in Reported

\* A program in the manifest has its interpreter there, and the interpreter has
\* been resolved: it never shows in the openat events (PT_INTERP comment).
InterpreterIncluded ==
    \A e \in visited \cap Elfs :
        ~Active(e) /\ e \notin abandoned /\ HasInterp(e) =>
            /\ image.interp[e] \in files
            /\ Real[image.interp[e]] \in visited

\* InferredFrom is an audit trail: what is added is labelled with a path of the
\* manifest that leads to an ELF file which needs it.
AuditTrail ==
    /\ DOMAIN from = files \ image.observed
    /\ \A p \in DOMAIN from :
         /\ from[p] \in files
         /\ LET e == Real[from[p]]
            IN  /\ e \in visited \cap Elfs
                /\ p \in LibNames(e) \cup InterpNames(e) \cup DependsOn(e)

\* The circular include guard: the parse, and the resolution after it, end.
ResolutionEnds == <>(outcome \in {"done", "error"})

=============================================================================
