---------------------------- MODULE StudioRuntime ----------------------------
(***************************************************************************)
(* The processes of the IR Learning Studio: the desktop program and the    *)
(* command line, both assembled by composition_root.create_runtime.  The   *)
(* library database is a file they share; a Windows named mutex, whose     *)
(* name is derived from the project root, is what keeps a second process   *)
(* away from it.                                                           *)
(***************************************************************************)
EXTENDS Naturals, FiniteSets

CONSTANTS
    Procs,      \* operating-system processes that may start a studio program
    Windows     \* whether they run on Windows (os.name == "nt")

NoProc == "no process"

ASSUME RuntimeAssumption == Windows \in BOOLEAN /\ NoProc \notin Procs

VARIABLES
    rt,         \* per process: the runtime it got, "down" when none runs
    mutex,      \* the process whose handle keeps the named mutex, or NoProc
    metaHash    \* library_meta.project_root_hash: "none", "own" or "other"

runtimeVars == <<rt, mutex, metaHash>>

\* What create_runtime returns, by what hangs on it: nothing (the root is no
\* project root, or another instance runs), an open database without the
\* LibraryService (a failed health check, or a library made under another
\* root), or the whole runtime with its enable flags set.
Modes == {"down", "noDatabase", "readonly", "ready"}

RuntimeTypeOK ==
    /\ rt \in [Procs -> Modes]
    /\ mutex \in Procs \cup {NoProc}
    /\ metaHash \in {"none", "own", "other"}

RuntimeInit ==
    /\ rt = [p \in Procs |-> "down"]
    /\ mutex = NoProc
    /\ metaHash \in {"none", "other"}

------------------------------------------------------------------------------
\* The mistake of looking only at the handle CreateMutexW returns.
MutexHandleOnly == FALSE

\* WindowsNamedMutex.acquire: CreateMutexW succeeds for a second process too;
\* ERROR_ALREADY_EXISTS is what tells it that it is second.
MutexTaken == mutex # NoProc

\* The mode create_runtime ends in, from its checks in their order.
RuntimeMode(rootValid, busy, healthy) ==
    CASE ~rootValid \/ busy -> "noDatabase"
      [] rootValid /\ ~busy /\ (~healthy \/ metaHash = "other") -> "readonly"
      [] OTHER -> "ready"

\* create_runtime: a process that got past the mutex opens the database, and
\* the first one ever writes its own root hash into library_meta.
StartRuntime(p) ==
    /\ rt[p] = "down"
    /\ \E rootValid, healthy \in BOOLEAN :
         LET mode == RuntimeMode(rootValid, Windows /\ MutexTaken, healthy)
             open == mode \in {"readonly", "ready"}
         IN  /\ rt' = [rt EXCEPT ![p] = mode]
             /\ mutex' = IF Windows /\ open THEN p ELSE mutex
             /\ metaHash' = IF open /\ metaHash = "none" THEN "own" ELSE metaHash

\* ApplicationRuntime.close (the finally of both programs), or the end of the
\* process by any other means: Windows closes its handles.
EndRuntime(p) ==
    /\ rt[p] # "down"
    /\ rt' = [rt EXCEPT ![p] = "down"]
    /\ mutex' = IF mutex = p THEN NoProc ELSE mutex
    /\ UNCHANGED metaHash

------------------------------------------------------------------------------
HasService(p) == rt[p] = "ready"
HasDatabase(p) == rt[p] \in {"ready", "readonly"}

\* At most one process has the library open (windows_mutex: "atomic
\* single-instance enforcement").  Everything the database layer does is
\* written for one writer: it reads before its transaction begins.
OneLibraryOwner ==
    Windows => Cardinality({p \in Procs : HasDatabase(p)}) <= 1

=============================================================================
