------------------------------- MODULE Tracer -------------------------------
(***************************************************************************)
(* The lifecycle of runs (crates/py/src/tracer.rs): entering and leaving a *)
(* tracer, deadly signals, fork and spawned children, for the threads of   *)
(* one process.  At a fork, or when a child is launched, the model goes on *)
(* as the parent or as the child: they share files (Output), no memory.    *)
(*                                                                         *)
(* Python code holds the GIL.  A stretch of Rust or C is one step; between *)
(* two steps the GIL is free, unless the code runs no Python in between:   *)
(* then the first step keeps it (gil = t).  parking_lot knows nothing of   *)
(* the GIL: a thread that waits for a mutex waits with the GIL in hand     *)
(* (Waits).  Only joining the exporter gives it back.  A mutex that is    *)
(* locked and unlocked within one step only needs to be free.              *)
(*                                                                         *)
(* Abstracted: one deadly signal stands for the three.  What a run records *)
(* is in Pipeline and History, what it writes in Output.                   *)
(***************************************************************************)
EXTENDS Naturals, Sequences

CONSTANTS Threads,       \* of the process; a forked or launched one starts on one of them
          Tracers,
          Subprocesses,  \* the tracers with trace_subprocesses
          Recorders,     \* the tracers with record_last_mb: their exporter reads tails
          MaxRuns,       \* bounds the runs that are entered; children may add theirs
          MaxChildren,   \* bounds the generations of processes
          NoOne, NoTracer,
          Exporter,      \* owns RECORDERS while the exporter of a run reads tails
          Vanished       \* owns a mutex that was locked when the process was forked

ASSUME TracerAssumption ==
    /\ Subprocesses \subseteq Tracers /\ Recorders \subseteq Tracers
    /\ MaxRuns \in Nat /\ MaxChildren \in Nat
    /\ Threads \cap {NoOne, Exporter, Vanished} = {}
    /\ NoOne \notin {Exporter, Vanished} /\ Exporter # Vanished
    /\ NoTracer \notin Tracers
    /\ (Tracers \cup {NoTracer}) \cap {"ACTIVE", "REPLACED_HANDLERS", "RECORDERS"} = {}

VARIABLES
    proc,          \* what the process holds, see Process
    made,          \* made[r]: the tracer of run r, of this process and its ancestors
    inherited,     \* the runs up to this one were its ancestors'
    generation,
    finished       \* the runs whose exporter has been joined

vars == <<proc, made, inherited, generation, finished>>
history == <<made, inherited, generation, finished>>

\* The statics of tracer.rs and tls.rs, and each tracer's running.
Locks == {"ACTIVE", "REPLACED_HANDLERS", "RECORDERS"} \cup Tracers

Steps == {"gone", "idle", "begin", "takeOver", "asking", "installed", "install", "publish",
          "clear", "handBack", "handing", "stop", "take", "flush", "join", "use",
          "beforeFork", "forking", "inParent", "inChild"}

Process ==
    [status   : {"alive", "dead"},
     main     : Threads,                     \* the thread that handles signals
     gil      : Threads \cup {NoOne},        \* kept between two steps by
     owner    : [Locks -> Threads \cup {NoOne, Exporter, Vanished}],
     active   : Tracers \cup {NoTracer},     \* ACTIVE
     slot     : [Tracers -> Nat],            \* Tracer.running, 0 for None
     monitored : SUBSET Tracers,             \* whose Running has a MonitoringHandle
     tool     : Nat,                         \* the run PROFILER_ID calls back, 0 if it is free
     env      : Tracers \cup {NoTracer},     \* what TRACE0_CHILD_OUTPUT names
     disp     : {"default", "user", "ignored", "ours"}, \* the signal's disposition
     saved    : {"none", "default", "user", "ignored"}, \* REPLACED_HANDLERS
     previous : {"none", "default", "user", "ignored"}, \* take_over_deadly_signals' local
     hooks    : BOOLEAN,                     \* HOOKS_REGISTERED
     pc       : [Threads -> Steps],
     at       : [Threads -> Tracers \cup {NoTracer}], \* self of the call under way
     hand     : [Threads -> Nat],            \* the Running it has on its stack, 0 for none
     handler  : {"none", "asked", "ending", "flush", "join", "raise"},
     dying    : Nat,                         \* the Running the signal handler ends
     entered  : Seq(Tracers),                \* the with blocks under way, innermost last
     signalled : Nat,                        \* the runs there were when the signal came, one per process
     failed   : BOOLEAN,   \* history: an __enter__ failed after it had advertised
     bare     : SUBSET Nat, \* history: the runs begun under the default action, as long as it stands
     crossed  : BOOLEAN,   \* history: a tracer was entered or left during a call of another thread
     elsewhere : BOOLEAN,  \* history: handlers were handed back off the main thread
     overlap  : BOOLEAN]   \* history: a fork overlapped another thread's call, or the handler

Fresh(t, env) ==
    [status |-> "alive", main |-> t, gil |-> NoOne, owner |-> [l \in Locks |-> NoOne],
     active |-> NoTracer, slot |-> [tr \in Tracers |-> 0], monitored |-> {}, tool |-> 0,
     env |-> env, disp |-> "default", saved |-> "none", previous |-> "none", hooks |-> FALSE,
     pc |-> [u \in Threads |-> IF u # t THEN "gone" ELSE IF env = NoTracer THEN "idle" ELSE "begin"],
     at |-> [u \in Threads |-> IF u = t THEN env ELSE NoTracer], hand |-> [u \in Threads |-> 0],
     handler |-> "none", dying |-> 0, entered |-> <<>>, signalled |-> 0,
     failed |-> FALSE, bare |-> {}, crossed |-> FALSE, elsewhere |-> FALSE, overlap |-> FALSE]

Init ==
    /\ \E t \in Threads, d \in {"default", "user", "ignored"} :
         proc = [Fresh(t, NoTracer) EXCEPT !.pc = [u \in Threads |-> "idle"], !.disp = d]
    /\ made = <<>> /\ inherited = 0 /\ generation = 0
    /\ finished = {}

---------------------------------------------------------------------------
\* t may take a step of its own: it has the GIL or takes it, and is not
\* interrupted by the signal handler.
Runs(t) ==
    /\ proc.status = "alive"
    /\ proc.gil \in {NoOne, t}
    /\ t = proc.main => proc.handler = "none"

At(t, step) == Runs(t) /\ proc.pc[t] = step

Free(l) == proc.owner[l] = NoOne

Self(t) == proc.at[t]

\* with_active: ACTIVE, and the running of the tracer in it.
ActiveFree ==
    /\ Free("ACTIVE")
    /\ proc.active # NoTracer => Free(proc.active)

\* The active tracer has a Running in its slot.
ActiveRuns == proc.active # NoTracer /\ proc.slot[proc.active] # 0

\* A thread other than t is in fork, or is entering or leaving a tracer.
Forking(t) == \E u \in Threads \ {t} : proc.pc[u] \in {"beforeFork", "forking", "inParent"}
Crosses(t) == \E u \in Threads \ {t} : proc.pc[u] \notin {"gone", "idle", "use", "beforeFork", "forking", "inParent"}

\* monitoring::enable fails when PROFILER_ID is in use.
ToolIsFree == proc.tool = 0

\* What monitoring::disable leaves of the tool, for a tracer with a handle.
ToolWithout(tr) == IF tr \in proc.monitored THEN 0 ELSE proc.tool

\* What the environment names once tr was advertised or advertising has stopped.
Advertised(tr) == IF tr \in Subprocesses THEN tr ELSE NoTracer

Own(r) == r > inherited
NewRun(tr) == made' = Append(made, tr)
NextRun == Len(made) + 1

---------------------------------------------------------------------------
(* __enter__ and _enter_as_child.                                           *)

\* It first writes os.environ.
CallEnter(t, tr) ==
    /\ At(t, "idle") /\ Len(made) < MaxRuns
    /\ proc' = [proc EXCEPT !.env = Advertised(tr),
                            !.crossed = @ \/ Crosses(t), !.overlap = @ \/ Forking(t),
                            !.pc[t] = "begin", !.at[t] = tr]
    /\ UNCHANGED history

\* start: PROFILER_ID has one user.  Who finds it taken joins its exporter and
\* fails; who gets it registers the fork hooks.
Begin(t) ==
    /\ At(t, "begin") /\ ToolIsFree
    /\ NewRun(Self(t)) /\ UNCHANGED <<inherited, generation, finished>>
    /\ proc' = [proc EXCEPT !.tool = NextRun, !.hand[t] = NextRun, !.hooks = TRUE,
                            !.pc[t] = "takeOver", !.gil = t]

BeginFails(t) ==
    /\ At(t, "begin") /\ ~ToolIsFree
    /\ proc' = [proc EXCEPT !.failed = TRUE, !.pc[t] = "idle", !.at[t] = NoTracer]
    /\ UNCHANGED history

\* take_over_deadly_signals holds REPLACED_HANDLERS and calls signal.getsignal
\* and signal.signal, which are Python functions.
LockHandlers(t) ==
    /\ At(t, "takeOver") /\ Free("REPLACED_HANDLERS")
    /\ proc' = [proc EXCEPT !.owner["REPLACED_HANDLERS"] = t, !.pc[t] = "asking", !.gil = NoOne]
    /\ UNCHANGED history

\* signal.signal raises on a thread that is not the main thread.
TakesOver(t) == t = proc.main /\ proc.disp # "ours"

TakeOver(t) ==
    /\ At(t, "asking") /\ TakesOver(t)
    /\ proc' = [proc EXCEPT !.previous = proc.disp, !.disp = "ours", !.bare = {}, !.pc[t] = "installed"]
    /\ UNCHANGED history

LeaveHandlers(t) ==
    /\ At(t, "asking") /\ ~TakesOver(t)
    /\ proc' = [proc EXCEPT !.bare = IF proc.disp = "default" THEN @ \cup {proc.hand[t]} ELSE @,
                            !.owner["REPLACED_HANDLERS"] = NoOne, !.pc[t] = "install", !.gil = t]
    /\ UNCHANGED history

\* Mutant: asks for the handler once it has put its own in place.
KeepOurs(t) ==
    /\ At(t, "installed")
    /\ proc' = [proc EXCEPT !.saved = proc.disp, !.previous = "none",
                            !.owner["REPLACED_HANDLERS"] = NoOne,
                            !.pc[t] = "install", !.gil = t]
    /\ UNCHANGED history

KeepPrevious(t) ==
    /\ At(t, "installed")
    /\ proc' = [proc EXCEPT !.saved = proc.previous, !.previous = "none",
                            !.owner["REPLACED_HANDLERS"] = NoOne,
                            !.pc[t] = "install", !.gil = t]
    /\ UNCHANGED history

\* install: the run goes into its tracer, then the tracer into ACTIVE.
Install(t) ==
    /\ At(t, "install") /\ Free(Self(t))
    /\ proc' = [proc EXCEPT !.slot[Self(t)] = proc.hand[t], !.hand[t] = 0,
                            !.monitored = @ \cup {Self(t)},
                            !.pc[t] = "publish", !.gil = t]
    /\ UNCHANGED history

Publish(t) ==
    /\ At(t, "publish") /\ Free("ACTIVE")
    /\ proc' = [proc EXCEPT !.active = Self(t), !.entered = Append(@, Self(t)),
                            !.pc[t] = "idle", !.at[t] = NoTracer, !.gil = NoOne]
    /\ UNCHANGED history

---------------------------------------------------------------------------
(* __exit__.  It may run on any thread.                                     *)

CallExit(t) ==
    /\ At(t, "idle") /\ proc.entered # <<>>
    /\ LET depth == Len(proc.entered)
       IN proc' = [proc EXCEPT !.entered = SubSeq(@, 1, depth - 1), !.at[t] = proc.entered[depth],
                               !.crossed = @ \/ Crosses(t), !.overlap = @ \/ Forking(t),
                               !.pc[t] = "clear"]
    /\ UNCHANGED history

Clear(t) ==
    /\ At(t, "clear") /\ Free("ACTIVE")
    /\ proc' = [proc EXCEPT !.active = NoTracer, !.pc[t] = "handBack", !.gil = t]
    /\ UNCHANGED history

\* hand_back_deadly_signals: the guard lives as long as the loop over what it
\* drains, and the loop calls into the signal module.
LockToHandBack(t) ==
    /\ At(t, "handBack") /\ Free("REPLACED_HANDLERS")
    /\ proc' = IF proc.saved = "none"
               THEN [proc EXCEPT !.pc[t] = "stop", !.gil = NoOne]
               ELSE [proc EXCEPT !.owner["REPLACED_HANDLERS"] = t, !.pc[t] = "handing", !.gil = NoOne]
    /\ UNCHANGED history

\* Mutant: the guard outlives the loop.
HandBackLocked(t) ==
    /\ At(t, "handing")
    /\ proc' = [proc EXCEPT !.saved = "none",
                            !.disp = IF t = proc.main /\ @ = "ours" THEN proc.saved ELSE @,
                            !.elsewhere = @ \/ t # proc.main, !.pc[t] = "stop"]
    /\ UNCHANGED history

\* Mutant: only forgets what it replaced.
HandNothingBack(t) ==
    /\ At(t, "handing")
    /\ proc' = [proc EXCEPT !.saved = "none", !.elsewhere = @ \/ t # proc.main,
                            !.owner["REPLACED_HANDLERS"] = NoOne, !.pc[t] = "stop"]
    /\ UNCHANGED history

\* Off the main thread signal.signal raises, and drain has emptied the list.
HandBack(t) ==
    /\ At(t, "handing")
    /\ proc' = [proc EXCEPT !.saved = "none",
                            !.disp = IF t = proc.main /\ @ = "ours" THEN proc.saved ELSE @,
                            !.elsewhere = @ \/ t # proc.main,
                            !.owner["REPLACED_HANDLERS"] = NoOne, !.pc[t] = "stop"]
    /\ UNCHANGED history

\* Mutant: leaves the environment as it is.
GoOnAdvertising(t) ==
    /\ At(t, "stop")
    /\ proc' = [proc EXCEPT !.pc[t] = "take"]
    /\ UNCHANGED history

StopAdvertising(t) ==
    /\ At(t, "stop")
    /\ proc' = [proc EXCEPT !.env = NoTracer, !.pc[t] = "take"]
    /\ UNCHANGED history

\* The guard of running lives to the end of the if let, so through end.
Take(t) ==
    /\ At(t, "take") /\ Free(Self(t))
    /\ LET tr == Self(t)
       IN proc' = IF proc.slot[tr] = 0
                  THEN [proc EXCEPT !.pc[t] = "idle", !.at[t] = NoTracer]
                  ELSE [proc EXCEPT !.owner[tr] = t, !.hand[t] = proc.slot[tr], !.slot[tr] = 0,
                                    !.tool = ToolWithout(tr),
                                    !.monitored = @ \ {tr},
                                    !.pc[t] = "flush", !.gil = t]
    /\ UNCHANGED history

\* end: flush_every_thread, then the exporter is joined without the GIL.
Flush(t) ==
    /\ At(t, "flush") /\ Free("RECORDERS")
    /\ proc' = [proc EXCEPT !.pc[t] = "join", !.gil = NoOne]
    /\ UNCHANGED history

Join(t) ==
    /\ At(t, "join") /\ proc.owner["RECORDERS"] # Exporter
    /\ finished' = finished \cup {proc.hand[t]}
    /\ proc' = [proc EXCEPT !.hand[t] = 0, !.owner[Self(t)] = NoOne,
                            !.pc[t] = "idle", !.at[t] = NoTracer]
    /\ UNCHANGED <<made, inherited, generation>>

---------------------------------------------------------------------------
(* with_recorder: snapshot(), and entering and leaving its block.           *)

CallUse(t, tr) ==
    /\ At(t, "idle") /\ tr \in Recorders
    /\ proc' = [proc EXCEPT !.pc[t] = "use", !.at[t] = tr]
    /\ UNCHANGED history

Use(t) ==
    /\ At(t, "use") /\ Free(Self(t))
    /\ proc' = [proc EXCEPT !.pc[t] = "idle", !.at[t] = NoTracer, !.gil = NoOne]
    /\ UNCHANGED history

\* The exporter of a recorder reads the tails of the threads, without the GIL.
\* It lives in the process that made the run, until it is joined.
ReadTails(r) ==
    /\ proc.status = "alive" /\ r \notin finished
    /\ Own(r) /\ made[r] \in Recorders
    /\ Free("RECORDERS")
    /\ proc' = [proc EXCEPT !.owner["RECORDERS"] = Exporter]
    /\ UNCHANGED history

ReadTailsEnd(r) ==
    /\ proc.status = "alive" /\ r \notin finished
    /\ Own(r) /\ made[r] \in Recorders
    /\ proc.owner["RECORDERS"] = Exporter
    /\ proc' = [proc EXCEPT !.owner["RECORDERS"] = NoOne]
    /\ UNCHANGED history

---------------------------------------------------------------------------
(* os.fork with the hooks, and a child that is launched by exec.            *)

CallFork(t) ==
    /\ At(t, "idle")
    /\ proc' = [proc EXCEPT !.pc[t] = IF proc.hooks THEN "beforeFork" ELSE "forking",
                            !.overlap = @ \/ Crosses(t) \/ Forking(t) \/ proc.handler # "none"]
    /\ UNCHANGED history

\* Mutant: monitoring goes on across the fork.
BeforeForkMonitored(t) ==
    /\ At(t, "beforeFork") /\ ActiveFree
    /\ proc' = [proc EXCEPT !.pc[t] = "forking", !.gil = NoOne]
    /\ UNCHANGED history

BeforeFork(t) ==
    /\ At(t, "beforeFork") /\ ActiveFree
    /\ proc' = [proc EXCEPT !.monitored = IF ActiveRuns THEN @ \ {proc.active} ELSE @,
                            !.tool = IF ActiveRuns THEN ToolWithout(proc.active) ELSE @,
                            !.pc[t] = "forking", !.gil = NoOne]
    /\ UNCHANGED history

ForkReturns(t) ==
    /\ At(t, "forking")
    /\ proc' = [proc EXCEPT !.pc[t] = IF proc.hooks THEN "inParent" ELSE "idle"]
    /\ UNCHANGED history

\* Only the thread that forks is in the child; a mutex another thread holds
\* stays locked.
Child ==
    /\ generation < MaxChildren /\ generation' = generation + 1
    /\ inherited' = Len(made) /\ UNCHANGED <<made, finished>>

Fork(t) ==
    /\ At(t, "forking") /\ Child
    /\ proc' = [proc EXCEPT
         !.main = t,
         !.owner = [l \in Locks |-> IF Free(l) THEN NoOne ELSE Vanished],
         !.pc = [u \in Threads |-> IF u # t THEN "gone" ELSE IF proc.hooks THEN "inChild" ELSE "idle"],
         !.at = [u \in Threads |-> NoTracer],
         !.hand = [u \in Threads |-> 0],
         !.handler = "none", !.dying = 0, !.signalled = 0]

\* Mutant: the parent's monitoring is not enabled again.
AfterForkUnmonitored(t) ==
    /\ At(t, "inParent") /\ ActiveFree
    /\ proc' = [proc EXCEPT !.pc[t] = "idle", !.gil = NoOne]
    /\ UNCHANGED history

\* The parent monitors again, if nobody took the tool meanwhile.
AfterForkInParent(t) ==
    /\ At(t, "inParent") /\ ActiveFree
    /\ LET enables == ActiveRuns /\ ToolIsFree
       IN proc' = [proc EXCEPT !.monitored = IF enables THEN @ \cup {proc.active} ELSE @,
                               !.tool = IF enables THEN proc.slot[proc.active] ELSE @,
                               !.pc[t] = "idle", !.gil = NoOne]
    /\ UNCHANGED history

\* The child forgets its parent's run and begins one of its own.
AfterForkInChild(t) ==
    /\ At(t, "inChild") /\ ActiveFree
    /\ proc.active # NoTracer => Free("RECORDERS")
    /\ LET tr == proc.active
           begins == tr \in Subprocesses /\ ToolIsFree
       IN /\ IF begins THEN NewRun(tr) ELSE UNCHANGED made
          /\ UNCHANGED <<inherited, generation, finished>>
          /\ proc' = [proc EXCEPT !.slot = [x \in Tracers |->
                                       IF x # tr THEN @[x] ELSE IF begins THEN NextRun ELSE 0],
                                  !.monitored = IF begins THEN @ \cup {tr} ELSE @ \ {tr},
                                  !.tool = IF begins THEN NextRun ELSE @,
                                  !.bare = IF begins /\ proc.disp = "default" THEN @ \cup {NextRun} ELSE @,
                                  !.pc[t] = "idle", !.gil = NoOne]

\* process_startup in the child: the advertised tracer is entered as a child's.
Spawn(t) ==
    /\ At(t, "idle") /\ proc.env # NoTracer /\ Child
    /\ proc' = Fresh(t, proc.env)

---------------------------------------------------------------------------
(* Deadly signals.  Python runs a signal's handler on the main thread,      *)
(* wherever that thread is in Python.                                       *)

UserHandles ==
    /\ At(proc.main, "idle") /\ proc.disp # "user"
    /\ proc' = [proc EXCEPT !.disp = "user", !.bare = {}]
    /\ UNCHANGED history

Deliver ==
    /\ proc.status = "alive" /\ proc.gil = NoOne /\ proc.handler = "none"
    /\ proc.disp = "ours" /\ proc.signalled = 0
    /\ proc.pc[proc.main] # "join"
    /\ proc' = [proc EXCEPT !.signalled = Len(made), !.handler = "asked",
                            !.overlap = @ \/ Forking(proc.main)]
    /\ UNCHANGED history

\* The default action is the kernel's, at any moment and whoever has the GIL.
\* While the handler runs the disposition is the tracer's.
Killed ==
    /\ proc.status = "alive" /\ proc.handler = "none"
    /\ proc.disp = "default" /\ proc.signalled = 0
    /\ proc' = [proc EXCEPT !.status = "dead", !.signalled = Len(made)]
    /\ UNCHANGED history

Handles(step) ==
    /\ proc.status = "alive" /\ proc.handler = step
    /\ proc.gil \in {NoOne, proc.main}

\* A signal nobody is known to have had is swallowed, a handler of the user's
\* is called, and the default is let through once the run has ended.  What was
\* ignored becomes so again.
LookUp ==
    /\ Handles("asked") /\ Free("REPLACED_HANDLERS")
    /\ proc' = IF proc.saved = "default"
               THEN [proc EXCEPT !.handler = "ending", !.gil = proc.main]
               ELSE [proc EXCEPT !.disp = IF proc.saved = "ignored" THEN "ignored" ELSE @,
                                 !.handler = "none", !.gil = NoOne]
    /\ UNCHANGED history

\* Mutant: lets the signal through at once.
EndNothing ==
    /\ Handles("ending")
    /\ proc' = [proc EXCEPT !.handler = "raise", !.gil = NoOne]
    /\ UNCHANGED history

\* end_active_run only tries the locks: one that is held leaves the run as it is.
EndActive ==
    /\ Handles("ending")
    /\ LET tr == proc.active
       IN proc' = IF ActiveFree /\ ActiveRuns
                  THEN [proc EXCEPT !.owner["ACTIVE"] = proc.main, !.owner[tr] = proc.main,
                                    !.dying = proc.slot[tr], !.slot[tr] = 0,
                                    !.tool = ToolWithout(tr),
                                    !.monitored = @ \ {tr},
                                    !.handler = "flush"]
                  ELSE [proc EXCEPT !.handler = "raise", !.gil = NoOne]
    /\ UNCHANGED history

HandlerFlush ==
    /\ Handles("flush") /\ Free("RECORDERS")
    /\ proc' = [proc EXCEPT !.handler = "join", !.gil = NoOne]
    /\ UNCHANGED history

HandlerJoin ==
    /\ Handles("join") /\ proc.owner["RECORDERS"] # Exporter
    /\ finished' = finished \cup {proc.dying}
    /\ proc' = [proc EXCEPT !.dying = 0, !.owner["ACTIVE"] = NoOne,
                            !.owner[proc.active] = NoOne, !.handler = "raise"]
    /\ UNCHANGED <<made, inherited, generation>>

Raise ==
    /\ Handles("raise")
    /\ proc' = [proc EXCEPT !.status = "dead"]
    /\ UNCHANGED history

---------------------------------------------------------------------------
\* The mutexes t takes in its next step.
Wants(t) ==
    LET actives == {"ACTIVE"} \cup ({proc.active} \ {NoTracer})
    IN IF t = proc.main /\ proc.handler # "none"
       THEN CASE proc.handler = "asked" -> {"REPLACED_HANDLERS"}
              [] proc.handler = "flush" -> {"RECORDERS"}
              [] OTHER -> {}
       ELSE CASE proc.pc[t] \in {"takeOver", "handBack"} -> {"REPLACED_HANDLERS"}
              [] proc.pc[t] \in {"publish", "clear"} -> {"ACTIVE"}
              [] proc.pc[t] \in {"install", "take", "use"} -> {proc.at[t]}
              [] proc.pc[t] = "flush" -> {"RECORDERS"}
              [] proc.pc[t] \in {"beforeFork", "inParent"} -> actives
              [] proc.pc[t] = "inChild" -> actives \cup IF proc.active = NoTracer THEN {} ELSE {"RECORDERS"}
              [] OTHER -> {}

\* It waits for them with the GIL.
Waits(t) ==
    /\ proc.status = "alive" /\ proc.gil = NoOne
    /\ \E l \in Wants(t) : ~Free(l)
    /\ proc' = [proc EXCEPT !.gil = t]
    /\ UNCHANGED history

Enters(t) ==
    \/ \E tr \in Tracers : CallEnter(t, tr)
    \/ Begin(t) \/ BeginFails(t)
    \/ LockHandlers(t) \/ TakeOver(t) \/ LeaveHandlers(t) \/ KeepPrevious(t)
    \/ Install(t) \/ Publish(t)

Leaves(t) ==
    \/ CallExit(t) \/ Clear(t) \/ LockToHandBack(t) \/ HandBack(t)
    \/ StopAdvertising(t) \/ Take(t) \/ Flush(t) \/ Join(t)

Forks(t) ==
    \/ CallFork(t) \/ BeforeFork(t) \/ ForkReturns(t) \/ Fork(t) \/ Spawn(t)
    \/ AfterForkInParent(t) \/ AfterForkInChild(t)

Signals ==
    \/ UserHandles \/ Deliver \/ Killed \/ LookUp \/ EndActive
    \/ HandlerFlush \/ HandlerJoin \/ Raise

Next ==
    \/ \E t \in Threads :
          \/ Enters(t) \/ Leaves(t) \/ Forks(t)
          \/ (\E tr \in Tracers : CallUse(t, tr)) \/ Use(t)
          \/ Waits(t)
    \/ Signals
    \/ \E r \in DOMAIN made : ReadTails(r) \/ ReadTailsEnd(r)

Spec == Init /\ [][Next]_vars

---------------------------------------------------------------------------
TypeOK ==
    /\ proc \in Process
    /\ made \in Seq(Tracers) /\ inherited \in 0 .. Len(made)
    /\ generation \in 0 .. MaxChildren
    /\ finished \subseteq DOMAIN made

\* No call of the process is under way.
Quiet ==
    /\ proc.status = "alive" /\ proc.handler = "none"
    /\ \A t \in Threads : proc.pc[t] \in {"idle", "gone"}

\* However calls to enter, leave and fork fall, and wherever a signal comes in,
\* the active tracer, its run and the profiler tool agree once they are done: a
\* run that was not ended still gets its callbacks and is the one that an exit,
\* a signal or a fork will find.  A fork in the middle of another thread's
\* call is excepted: enable and the store to ACTIVE are not one step, nor are
\* the hooks, and the child can be left with its parent's tool.
TracedWhenQuiet ==
    Quiet /\ ~proc.overlap =>
        \A tr \in Tracers :
            /\ proc.slot[tr] # 0 =>
                 proc.active = tr /\ tr \in proc.monitored /\ proc.tool = proc.slot[tr]
            /\ proc.active = tr /\ proc.slot[tr] = 0 => tr \notin Subprocesses

\* A child never records into its parent's run and never joins its exporter,
\* which is a thread it does not have.
ChildIsApart ==
    ~proc.overlap =>
        /\ Quiet /\ proc.tool # 0 => Own(proc.tool)
        /\ \A t \in Threads : proc.hand[t] # 0 => Own(proc.hand[t])

\* The environment names the active tracer if it traces subprocesses, and
\* nothing otherwise, in parent and child.  It does not after an __enter__ that
\* failed, which had advertised before it began, nor when two threads enter and
\* leave at once.
AdvertisedIsRunning ==
    Quiet /\ ~proc.overlap /\ ~proc.failed /\ ~proc.crossed =>
        proc.env = Advertised(proc.active)

\* While the tracer's handler is in place the one it replaced is known, so no
\* deadly signal is swallowed.  Leaving a tracer off the main thread drains
\* REPLACED_HANDLERS and restores nothing.
SignalHasItsHandler ==
    ~proc.overlap /\ ~proc.elsewhere /\ proc.disp = "ours" =>
        proc.saved # "none" \/ proc.pc[proc.main] = "installed"

\* The runs that are not under the handler's protection while the default stands:
\* begun where no handler could be installed (off the main thread, or in a forked
\* child of such a process), being entered before the handler is in place, or being
\* left after the handlers have been handed back.
Unguarded(r) ==
    LET main == proc.main
    IN \/ r \in proc.bare
       \/ proc.hand[main] = r /\ proc.pc[main] \in {"takeOver", "asking", "flush", "join"}
       \/ proc.pc[main] \in {"stop", "take"} /\ proc.slot[Self(main)] = r

\* README.md:126 says that a run ended by a deadly signal still writes what it recorded.
\* When a deadly signal kills the process, every run there was when it came has been
\* finished, or another thread is entering or leaving it right then.  A signal that
\* reaches the default itself, and not the tracer's handler, also takes the
\* unguarded runs along, but no other: between install and hand_back_deadly_signals
\* no call, fork or handler of the user leaves a run open to it.
DiesFinished ==
    proc.status = "dead" /\ ~proc.overlap =>
        \A r \in 1 .. proc.signalled : Own(r) =>
            \/ r \in finished
            \/ \E t \in Threads \ {proc.main} : proc.hand[t] = r
            \/ proc.handler = "none" /\ Unguarded(r)

\* t waits for a mutex with the GIL, and its owner needs the GIL or is gone.
Stuck(t) ==
    /\ proc.status = "alive" /\ proc.gil = t
    /\ \E l \in Wants(t) : proc.owner[l] \in Threads \cup {Vanished}

\* A process hangs in three ways only: the owner is calling into the signal
\* module with REPLACED_HANDLERS, or is joining its exporter with running (the
\* signal handler also with ACTIVE), or was left behind by a fork.
OnlyKnownDeadlocks ==
    \A t \in Threads : Stuck(t) =>
        \E l \in Wants(t) :
            \/ proc.owner[l] = Vanished
            \/ \E u \in Threads :
                 /\ proc.owner[l] = u
                 /\ \/ proc.pc[u] \in {"asking", "installed", "handing"} /\ l = "REPLACED_HANDLERS"
                    \/ proc.pc[u] = "join" /\ l = proc.at[u]
                    \/ u = proc.main /\ proc.handler = "join" /\ l \in {"ACTIVE", proc.active}

\* tests/test_signals.py says of the tracer that it "ends its run, and then lets
\* the signal do what it was always going to do": the handler never hangs.
SignalGoesThrough == proc.handler # "none" => ~Stuck(proc.main)
=============================================================================
