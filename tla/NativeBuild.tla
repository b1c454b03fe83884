------------------------------ MODULE NativeBuild ------------------------------
(***************************************************************************)
(* How a native library is built into a cache that processes share, and    *)
(* loaded from it (build_native, _library and their six siblings).         *)
(*                                                                         *)
(* The seven libraries are built alike.  Libraries says where their        *)
(* builders differ; they share nothing but the cache's directory.          *)
(* Locks inside a process let one of its threads at a time build or load,  *)
(* so that a process is one builder.                                       *)
(***************************************************************************)
EXTENDS Naturals, Sequences

CONSTANTS
  Processes,
  Compilers,       \* what compiler and CXX can name, versions included
  Files,           \* the number of source files of the library
  Contents,        \* what a source file can contain
  Compatible(_)    \* whether sources declare the interface that is expected

ASSUME FilesAssumption == Files \in Nat

(* How the libraries differ: whether resolved paths are remembered within a *)
(* process, whether an empty output is refused, and whether what is loaded  *)
(* goes by its path alone or by the environment that led to it.  That a     *)
(* library was built elsewhere and is named by the environment (DLP_*_      *)
(* LIBRARY) is left out: nothing is built then.                             *)
Relations == [remembers |-> TRUE,  refusesEmpty |-> TRUE,  byEnvironment |-> FALSE]
Windows   == [remembers |-> FALSE, refusesEmpty |-> FALSE, byEnvironment |-> TRUE]
Runtime   == [remembers |-> FALSE, refusesEmpty |-> TRUE,  byEnvironment |-> TRUE]
Query     == [remembers |-> FALSE, refusesEmpty |-> TRUE,  byEnvironment |-> TRUE]
Package   == [remembers |-> FALSE, refusesEmpty |-> TRUE,  byEnvironment |-> TRUE]
Spatial   == [remembers |-> FALSE, refusesEmpty |-> FALSE, byEnvironment |-> TRUE]
Domains   == [remembers |-> FALSE, refusesEmpty |-> TRUE,  byEnvironment |-> TRUE]

Libraries == {Relations, Windows, Runtime, Query, Package, Spatial, Domains}

VARIABLES
  library,   \* the library that is built
  checkout,  \* the source files, as they are edited
  target,    \* the cache: what is at the path of each key
  lock,      \* who holds the lock file of each key
  builder,   \* what each process is doing
  paths,     \* the keys whose paths a process remembers (_BUILD_PATHS)
  loaded     \* the libraries a process has loaded, and what they are known by

buildVars == <<library, checkout, target, lock, builder, paths, loaded>>

-----------------------------------------------------------------------------
(* Libraries                                                                *)

Sources == [1 .. Files -> Contents]

(* A manifest names the compiler and digests every source.                  *)
BuildKeys == [compiler : Compilers, sources : Sources]

(* What a compiler leaves: nothing, or a file of some size that was made    *)
(* of these sources, perhaps not to its end.                                *)
Forms  == {"empty", "part", "whole"}
Absent == [size |-> "absent"]
Output(key, size) == [size |-> size, of |-> key]
Outputs == {Absent} \cup {Output(k, s) : k \in BuildKeys, s \in Forms}

(* target.is_file() and target.stat().st_size                               *)
Present(file) == file.size \notin {"absent", "empty"}

Unlocked == "unlocked"
ASSUME UnlockedAssumption == Unlocked \notin Processes

Idle == [phase |-> "idle"]
Reading(environment, read) == [phase |-> "reading", environment |-> environment, read |-> read]
Resolved(phase, environment, key, output) ==
  [phase |-> phase, environment |-> environment, key |-> key, output |-> output]

(* What a library that was loaded is known by.                              *)
Names == Compilers \cup BuildKeys
NameOf(environment, key) == IF library.byEnvironment THEN environment ELSE key

(* Mutant: the manifest digests the sources alone.                          *)
KeyOfSources(b) == [compiler |-> CHOOSE c \in Compilers : TRUE, sources |-> b.read]

(* The key of what a builder has read.                                      *)
KeyOf(b) == [compiler |-> b.environment, sources |-> b.read]

-----------------------------------------------------------------------------
(* Building                                                                 *)

(* _library, where it has not loaded what it is asked for: the sources are  *)
(* read, one file after the other.                                          *)
Begin(p, environment) ==
  /\ builder[p] = Idle
  /\ library.byEnvironment => environment \notin DOMAIN loaded[p]
  /\ builder' = [builder EXCEPT ![p] = Reading(environment, <<>>)]
  /\ UNCHANGED <<library, checkout, target, lock, paths, loaded>>

ReadFile(p) ==
  LET b == builder[p] IN
  /\ b.phase = "reading" /\ Len(b.read) < Files
  /\ builder' = [builder EXCEPT ![p] =
                    Reading(b.environment, Append(b.read, checkout[Len(b.read) + 1]))]
  /\ UNCHANGED <<library, checkout, target, lock, paths, loaded>>

Proceed(p, key, phase, output) ==
  builder' = [builder EXCEPT ![p] = Resolved(phase, builder[p].environment, key, output)]

(* A path that is remembered is taken if there still is a library.          *)
Resolve(p) ==
  LET b == builder[p] IN
  /\ b.phase = "reading" /\ Len(b.read) = Files
  /\ LET key == KeyOf(b)
     IN  Proceed(p, key, IF key \in paths[p] /\ Present(target[key]) THEN "built" ELSE "waiting", Absent)
  /\ UNCHANGED <<library, checkout, target, lock, paths, loaded>>

Remembering(p, key) ==
  paths' = IF library.remembers THEN [paths EXCEPT ![p] = @ \cup {key}] ELSE paths

(* Mutant: it was looked at before the lock was waited for.                 *)
FoundNever(key) == FALSE

(* Under the lock it is looked at again, since it may have been built in    *)
(* the meantime.                                                            *)
Found(key) == Present(target[key])

Lock(p) ==
  LET b == builder[p] IN
  /\ b.phase = "waiting"
  /\ lock[b.key] = Unlocked
  /\ IF Found(b.key)
     THEN Proceed(p, b.key, "built", Absent) /\ Remembering(p, b.key) /\ UNCHANGED lock
     ELSE Proceed(p, b.key, "compiling", Absent) /\ lock' = [lock EXCEPT ![b.key] = p] /\ UNCHANGED paths
  /\ UNCHANGED <<library, checkout, target, loaded>>

(* Mutant: the files of the checkout are compiled.                          *)
MadeOfCheckout(b) == [compiler |-> b.environment, sources |-> checkout]

(* Copies of the bytes that were digested are compiled.                     *)
Made(b) == [compiler |-> b.environment, sources |-> b.key.sources]

(* The compiler writes into a directory of this build's own, until it ends  *)
(* in one way or another.                                                   *)
Write(p, size) ==
  LET b == builder[p] IN
  /\ b.phase = "compiling" /\ b.output.size \in {"absent", "part"}
  /\ Proceed(p, b.key, "compiling", Output(Made(b), size))
  /\ UNCHANGED <<library, checkout, target, lock, paths, loaded>>

(* A compiler that reports success has left nothing, or all of it.          *)
Acceptable(output) ==
  output.size = "whole" \/ (output.size = "empty" /\ ~library.refusesEmpty)

(* The output is moved to its place in one step, the lock given up.         *)
Install(p) ==
  LET b == builder[p] IN
  /\ b.phase = "compiling" /\ Acceptable(b.output)
  /\ target' = [target EXCEPT ![b.key] = b.output]
  /\ lock' = [lock EXCEPT ![b.key] = Unlocked]
  /\ Remembering(p, b.key)
  /\ Proceed(p, b.key, "built", Absent)
  /\ UNCHANGED <<library, checkout, loaded>>

Released(p) == [k \in BuildKeys |-> IF lock[k] = p THEN Unlocked ELSE lock[k]]

(* No compiler, one that fails or takes too long, an output that is missing *)
(* or refused, a file that cannot be read or written: the exception removes *)
(* the directory and gives up the lock.                                     *)
Fail(p) ==
  /\ builder[p] # Idle
  /\ builder' = [builder EXCEPT ![p] = Idle]
  /\ lock' = Released(p)
  /\ UNCHANGED <<library, checkout, target, paths, loaded>>

-----------------------------------------------------------------------------
(* Loading                                                                  *)

(* What CDLL can open, with the version and all the functions expected.     *)
Loadable(file) == file.size \in {"part", "whole"} /\ Compatible(file.of.sources)

(* A path that was loaded before is not opened again.                       *)
Load(p) ==
  LET b == builder[p]
      name == NameOf(b.environment, b.key)
  IN
  /\ b.phase = "built"
  /\ \/ name \in DOMAIN loaded[p] /\ UNCHANGED loaded
     \/ /\ name \notin DOMAIN loaded[p] /\ Loadable(target[b.key])
        /\ loaded' = [loaded EXCEPT ![p] = [n \in DOMAIN @ \cup {name} |->
                                              IF n = name THEN target[b.key] ELSE @[n]]]
  /\ builder' = [builder EXCEPT ![p] = Idle]
  /\ UNCHANGED <<library, checkout, target, lock, paths>>

-----------------------------------------------------------------------------
(* Around them                                                              *)

(* A process dies: what it remembers is lost, and the lock, which is the    *)
(* operating system's, with it.                                             *)
Crash(p) ==
  /\ builder' = [builder EXCEPT ![p] = Idle]
  /\ lock' = Released(p)
  /\ paths' = [paths EXCEPT ![p] = {}]
  /\ loaded' = [loaded EXCEPT ![p] = [n \in {} |-> Absent]]
  /\ UNCHANGED <<library, checkout, target>>

Edit(f, content) ==
  /\ checkout' = [checkout EXCEPT ![f] = content]
  /\ UNCHANGED <<library, target, lock, builder, paths, loaded>>

(* Somebody removes a library from the cache.                               *)
Discard(key) ==
  /\ target' = [target EXCEPT ![key] = Absent]
  /\ UNCHANGED <<library, checkout, lock, builder, paths, loaded>>

BuildInit ==
  /\ library \in Libraries
  /\ checkout \in Sources
  /\ target = [k \in BuildKeys |-> Absent]
  /\ lock = [k \in BuildKeys |-> Unlocked]
  /\ builder = [p \in Processes |-> Idle]
  /\ paths = [p \in Processes |-> {}]
  /\ loaded = [p \in Processes |-> [n \in {} |-> Absent]]

BuildNext ==
  \/ \E p \in Processes :
       \/ \E c \in Compilers : Begin(p, c)
       \/ ReadFile(p) \/ Resolve(p) \/ Lock(p) \/ Install(p) \/ Load(p) \/ Fail(p) \/ Crash(p)
       \/ \E size \in Forms : Write(p, size)
  \/ \E f \in 1 .. Files, c \in Contents : Edit(f, c)
  \/ \E k \in BuildKeys : Discard(k)

BuildSpec == BuildInit /\ [][BuildNext]_buildVars

-----------------------------------------------------------------------------
(* Properties                                                               *)

(* What is in the cache under a key was made to the end of the sources of   *)
(* that key by its compiler, and so was what a process uses for an          *)
(* environment, however builds, crashes, edits of the checkout and removals *)
(* interleave (build_native, _library).                                     *)
LibrariesAreBuilt ==
  /\ \A k \in BuildKeys : Present(target[k]) => target[k] = Output(k, "whole")
  /\ \A p \in Processes : \A n \in DOMAIN loaded[p] :
       /\ loaded[p][n].size = "whole" /\ Compatible(loaded[p][n].of.sources)
       /\ n = NameOf(loaded[p][n].of.compiler, loaded[p][n].of)

(* Of a library that is there no second one is built, and none by two       *)
(* processes at once; and however a builder ends, by an exception or with   *)
(* its process, it leaves no key locked (_build_lock).                      *)
BuiltOnce ==
  LET Builds(p, k) == builder[p].phase = "compiling" /\ builder[p].key = k IN
  \A k \in BuildKeys :
    /\ \A p \in Processes : Builds(p, k) => ~Present(target[k])
    /\ \A p, q \in Processes : Builds(p, k) /\ Builds(q, k) => p = q
    /\ lock[k] # Unlocked => Builds(lock[k], k)
=============================================================================
