----------------------------- MODULE Application -----------------------------
(***************************************************************************)
(* The process: main.cpp, CAppRunUtil.h and CEventDispatcher::init.  main  *)
(* loads every JSON file of the directory, adds the tasks whose settings   *)
(* it finds, and waits for them.  A task runs its init block, waits for a  *)
(* termination signal and runs its cleanup block, all on one thread of     *)
(* TBB, so that it keeps that thread as long as the process runs.          *)
(*                                                                         *)
(* The process may die at any moment and is started again; the files stay. *)
(* Signals are handled as POSIX says: a handler stays installed.  The end  *)
(* of main() is the end of a run here: the destructors of the static       *)
(* objects, which run after it and may wait, are those of the event loops  *)
(* (UVOneloop, UVMultiloop).                                               *)
(***************************************************************************)
EXTENDS ConfigStore, FiniteSets

CONSTANTS
    AppTasks,   \* the key paths of the tasks' settings, in init()'s order
    Slots,      \* threads of TBB, the one that waits for the group included
    MaxRuns     \* bound: starts of the process

ASSUME ApplicationAssumption ==
    AppTasks \in Seq(Seq(STRING)) /\ Slots \in Nat /\ MaxRuns \in Nat \ {0}

Tasks   == 1..Len(AppTasks)
Signals == {"SIGINT", "SIGTERM"}

VARIABLES
    phase,       \* where main() is, or how the process ended
    unread,      \* directory entries that the iterator has still to yield
    dispatched,  \* tasks that init() has considered
    task,        \* task[t]: where the thread of the task is
    handled,     \* signals that SignalHandler's constructor has registered
    terminate_,
    signalled,   \* a signal has been sent to this process
    cut,         \* a save has been cut short, in this or an earlier process
    runs

appVars == <<phase, unread, dispatched, task, handled, terminate_, signalled, cut, runs>>
vars == <<storeVars, appVars>>

TypeOK ==
    /\ StoreTypeOK
    /\ phase \in {"load", "dispatch", "wait", "returned", "unopened", "unparsed", "killed"}
    /\ unread \subseteq Files
    /\ dispatched \in 0..Len(AppTasks)
    /\ task \in [Tasks -> {"absent", "queued", "init", "register", "building",
                           "waiting", "cleanup", "done", "threw"}]
    /\ handled \subseteq Signals
    /\ terminate_ \in BOOLEAN /\ signalled \in BOOLEAN /\ cut \in BOOLEAN
    /\ runs \in 1..MaxRuns

ProcessInit ==
    /\ phase = "load"
    /\ unread = Files
    /\ dispatched = 0
    /\ task = [t \in Tasks |-> "absent"]
    /\ handled = {}
    /\ terminate_ = FALSE /\ signalled = FALSE

Init == StoreInit /\ ProcessInit /\ cut = FALSE /\ runs = 1

Alive == phase \in {"load", "dispatch", "wait"}

-----------------------------------------------------------------------------
(***************************************************************************)
(* main().                                                                 *)
(***************************************************************************)
\* Mutant: every entry of the directory is loaded.
IsConfig_NotAsked(f) == TRUE
IsConfig(f) == f \in JsonFiles

\* The iterator yields the entries in an order that nothing specifies.  main
\* refuses to start when it cannot open a configuration, or parse it.
MainLoads ==
    /\ phase = "load"
    /\ \E f \in unread :
          /\ unread' = unread \ {f}
          /\ \/ /\ m_json' = IF IsConfig(f) /\ files[f].whole
                              THEN MergePatch(m_json, files[f].doc) ELSE m_json
                /\ phase' = IF IsConfig(f) /\ ~files[f].whole THEN "unparsed" ELSE "load"
             \/ IsConfig(f) /\ phase' = "unopened" /\ UNCHANGED m_json
    /\ UNCHANGED <<files, job, made, dispatched, task, handled, terminate_, signalled, cut, runs>>

MainHasLoaded ==
    /\ phase = "load" /\ unread = {}
    /\ phase' = "dispatch"
    /\ UNCHANGED <<storeVars, unread, dispatched, task, handled, terminate_, signalled, cut, runs>>

\* A task is added to the group unless its settings are missing or null.
Added(path) == Found(m_json, path) /\ ValueAt(m_json, path) # Leaf("null")

MainDispatches ==
    /\ phase = "dispatch"
    /\ dispatched < Len(AppTasks)
    /\ dispatched' = dispatched + 1
    /\ task' = [task EXCEPT ![dispatched'] =
                  IF Added(AppTasks[dispatched']) THEN "queued" ELSE "absent"]
    /\ UNCHANGED <<storeVars, phase, unread, handled, terminate_, signalled, cut, runs>>

MainWaits ==
    /\ phase = "dispatch" /\ dispatched = Len(AppTasks)
    /\ phase' = "wait"
    /\ UNCHANGED <<storeVars, unread, dispatched, task, handled, terminate_, signalled, cut, runs>>

\* The end of main() or of the process; it stops the users wherever they are.
Ends(how) ==
    /\ phase' = how
    /\ job' = [u \in Users |-> NoCall]
    /\ cut' = (cut \/ \E f \in Files : Saving(f))
    /\ UNCHANGED <<m_json, files, made, unread, dispatched, task, handled, terminate_, runs>>

IsOver(t) == task[t] \in {"absent", "done", "threw"}

MainReturns ==
    /\ phase = "wait"
    /\ \A t \in Tasks : IsOver(t)
    /\ Ends("returned")
    /\ UNCHANGED signalled

\* It dies: a crash, or an exception that nobody catches, as that of
\* directory_iterator when the directory is missing.
Dies == Alive /\ Ends("killed") /\ UNCHANGED signalled

Restart ==
    /\ ~Alive
    /\ runs < MaxRuns
    /\ runs' = runs + 1
    /\ m_json' = Leaf("null")
    /\ phase' = "load"
    /\ unread' = Files
    /\ dispatched' = 0
    /\ task' = [t \in Tasks |-> "absent"]
    /\ handled' = {}
    /\ terminate_' = FALSE /\ signalled' = FALSE
    /\ UNCHANGED <<files, job, made, cut>>

-----------------------------------------------------------------------------
(***************************************************************************)
(* Signals, and the tasks.                                                 *)
(***************************************************************************)
\* Mutant: the handler knows one signal only.
Terminates_TermOnly(s) == s = "SIGTERM"
Terminates(s) == s \in Signals

Constructed == handled = Signals

\* A signal without a handler ends the process.  One that comes while the
\* constructor of the singleton still runs makes the handler enter the same
\* initialisation: it waits for its end, or, on the same thread, the process
\* aborts.
SignalComes(s) ==
    /\ Alive /\ ~signalled
    /\ signalled' = TRUE
    /\ \/ /\ s \in handled
          /\ terminate_' = Terminates(s)
          /\ UNCHANGED <<storeVars, phase, unread, dispatched, task, handled, cut, runs>>
       \/ s \notin handled /\ Ends("killed")
       \/ s \in handled /\ ~Constructed /\ Ends("killed")

\* Mutant: main() watches without taking tasks.
MainHelps_Never == FALSE
\* The thread that waits for the group runs tasks of it.
MainHelps == phase = "wait"

Running == {t \in Tasks : task[t] \in {"init", "register", "building", "waiting", "cleanup"}}
FreeThread == Cardinality(Running) < (IF MainHelps THEN Slots ELSE Slots - 1)

Moves(t, from, to) ==
    /\ Alive
    /\ task[t] = from
    /\ task' = [task EXCEPT ![t] = to]
    /\ UNCHANGED <<storeVars, phase, unread, dispatched, terminate_, signalled, cut, runs>>

TaskStarts(t) == FreeThread /\ Moves(t, "queued", "init") /\ UNCHANGED handled

\* The init block, which throws if a setting has another type than it asks.
InitReturns(t) == Moves(t, "init", "register") /\ UNCHANGED handled
InitThrows(t) == Moves(t, "init", "threw") /\ UNCHANGED handled

\* The first task to ask for the SignalHandler constructs it, signal by
\* signal; the others wait until it has.
Constructs(t) ==
    /\ handled = {}
    /\ Moves(t, "register", "building")
    /\ handled' = {"SIGINT"}
Registers(t) == Moves(t, "building", "waiting") /\ handled' = Signals
FindsHandler(t) == Constructed /\ Moves(t, "register", "waiting") /\ UNCHANGED handled

StopsWaiting(t) == terminate_ /\ Moves(t, "waiting", "cleanup") /\ UNCHANGED handled
CleanupEnds(t) == Moves(t, "cleanup", "done") /\ UNCHANGED handled

TaskStep(t) ==
    \/ TaskStarts(t) \/ InitReturns(t) \/ InitThrows(t)
    \/ Constructs(t) \/ Registers(t) \/ FindsHandler(t)
    \/ StopsWaiting(t) \/ CleanupEnds(t)

-----------------------------------------------------------------------------
\* The users are the callbacks and loop threads that a task has brought up.
UsersRun == Alive /\ \E t \in Tasks : task[t] \notin {"absent", "queued"}

UserStep(u) ==
    /\ UsersRun
    /\ \/ /\ \/ \E s \in Settings : UserSets(u, s)
             \/ \E f \in JsonFiles : LoadParses(u, f) \/ SaveOpens(u, f)
             \/ CallFails(u)
             \/ LoadMerges(u) \/ SaveDumps(u)
          /\ UNCHANGED cut
       \/ (SaveThrows(u) \/ SaveNotFlushed(u)) /\ cut' = TRUE
       \/ SaveCloses(u) /\ cut' = (cut \/ files[job[u].file].whole)
    /\ UNCHANGED <<phase, unread, dispatched, task, handled, terminate_, signalled, runs>>

MainStep == MainLoads \/ MainHasLoaded \/ MainDispatches \/ MainWaits \/ MainReturns

Next ==
    \/ MainStep \/ Dies \/ Restart
    \/ \E s \in Signals : SignalComes(s)
    \/ \E t \in Tasks : TaskStep(t)
    \/ \E u \in Users : UserStep(u)

\* main and the tasks go on; nothing is assumed of signals and users.
Fairness == WF_vars(MainStep) /\ \A t \in Tasks : WF_vars(TaskStep(t))

Spec == Init /\ [][Next]_vars /\ Fairness

-----------------------------------------------------------------------------
Comparable(p, q) == IsPrefix(p, q) \/ IsPrefix(q, p)

\* A file has something to say about path p other than that it has value v.
Contests(g, p, v) ==
    \E q \in DOMAIN files[g].doc :
        /\ Comparable(p, q)
        /\ ~(q = p /\ files[g].doc[q] = v)
        /\ ~(IsStrictPrefix(q, p) /\ files[g].doc[q] = "object")

FileCounts(f) ==
    \A p \in DOMAIN files[f].doc :
        LET v == files[f].doc[p]
        IN  /\ v \notin {"object", "null"}
            /\ \A g \in JsonFiles \ {f} : ~Contests(g, p, v)
            => p \in DOMAIN m_json /\ m_json[p] = v

\* A setting that only one file mentions is in force when main starts the
\* tasks, in whatever order the directory yields the files, and whatever
\* earlier processes have saved to them (CConfigLoader.h:15,
\* CConfigManager.cpp:124).
EveryFileCounts == phase = "dispatch" /\ dispatched = 0 => \A f \in JsonFiles : FileCounts(f)

\* A setting is read back as it was set, and no path that is neither above
\* nor below it is touched (CConfigManager.cpp:15 to 75, 193).
SetIsLocal ==
    [][\A u \in Users, s \in Settings :
         UserStep(u) /\ UserSets(u, s) =>
            /\ ValueAt(m_json', s.path) = s.value
            /\ \A q \in DOMAIN m_json \cup DOMAIN m_json' :
                  Comparable(q, KeysOf(s.path)) \/
                  (q \in DOMAIN m_json \cap DOMAIN m_json' /\ m_json[q] = m_json'[q])]_vars

\* A configuration that main can open but not parse was cut short by a save:
\* by the end of the process that saved it, by a text it could not dump, by a
\* flush that failed, or by another save of the same file
\* (CConfigManager.cpp:119, 147).
ParsesUnlessCut == phase = "unparsed" => cut

\* A signal ends main() or kills the process, whenever it comes
\* (CAppRunUtil.h:88, 131).
SignalEnds == signalled ~> ~Alive

\* Every task is started, though each keeps its thread (CAppRunUtil.h:190, 250).
TasksStart == \A t \in Tasks : task[t] = "queued" ~> task[t] # "queued" \/ ~Alive
=============================================================================
