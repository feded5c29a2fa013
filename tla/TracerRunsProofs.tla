-------------------------- MODULE TracerRunsProofs --------------------------
(***************************************************************************)
(* What is proved of the runs of Tracer: which run is where, what the tool *)
(* and the environment have to do with it, and what a deadly signal ends.  *)
(*                                                                         *)
(* Four invariants rest on each other and on TracerProofs: Ordered says    *)
(* what a step of a call, or of the handler, may find; Advertises follows  *)
(* the environment; Undisturbed holds until a fork overlaps a call; and    *)
(* Follows, which holds until then too, is Tracked, which follows every    *)
(* run from its Begin to the join of its exporter, and Settled, which says *)
(* more of the time before the signal handler ends a run: it does not come *)
(* back from there.  Guarded, on top of them, says which runs a signal may *)
(* find under the default action.                                          *)
(***************************************************************************)
EXTENDS TracerProofs

\* A run is on the stack of the call that begins it, between Begin and Install.
Starting == {"takeOver", "asking", "installed", "install"}

\* A tracer has left entered; its run is not taken yet.
Leaving == {"clear", "handBack", "handing", "stop", "take"}
Cleared == {"handBack", "handing", "stop", "take"}

\* A run is on the stack of the call that ends it.
Finishing == {"flush", "join"}

\* Monitoring has stopped for a fork.
Forked == {"forking", "inParent", "inChild"}

Doomed == proc.handler \in {"flush", "join", "raise"}

Others(t) == {u \in Threads \ {t} : proc.pc[u] # "gone"}

---------------------------------------------------------------------------
(* Ordered: in every process.                                               *)

KeepsGil == {"takeOver", "install", "publish", "handBack"}

\* These steps follow the one before without the GIL being given back.
GilHeld ==
    \A u \in Threads : proc.pc[u] \in KeepsGil =>
        proc.gil = u /\ (u = proc.main => proc.handler = "none")

\* What the main thread was doing when the handler began, and what it finds.
HandlerBusy ==
    /\ proc.handler # "none" => proc.pc[proc.main] # "join"
    /\ proc.handler \in {"ending", "flush", "join", "raise"} =>
          proc.pc[proc.main] \notin Starting \cup Finishing \cup {"publish"}
    /\ proc.handler = "ending" => proc.saved = "default" /\ Free("REPLACED_HANDLERS")
    /\ proc.handler \in {"flush", "join"} =>
          proc.active \in Tracers /\ proc.owner[proc.active] = proc.main
    /\ proc.status = "dead" => proc.handler \in {"raise", "none"}
    /\ proc.signalled <= Len(made)

\* The fork hooks are registered by the first run.
Hooked ==
    ~proc.hooks =>
        /\ proc.tool = 0 /\ \A tr \in Tracers : proc.slot[tr] = 0
        /\ \A t \in Threads : proc.hand[t] = 0 /\ proc.pc[t] # "inChild"

ChildAlone ==
    \A t \in Threads : proc.pc[t] = "inChild" =>
        t = proc.main /\ inherited = Len(made) /\ Others(t) = {}

HandsEmpty ==
    /\ \A t \in Threads : proc.pc[t] \notin Starting \cup Finishing => proc.hand[t] = 0
    /\ proc.handler \notin {"flush", "join"} => proc.dying = 0

\* Nothing comes into running while its run is ended.
RunningHeld ==
    \A t \in Threads : proc.pc[t] \in Finishing =>
        proc.owner[proc.at[t]] = t /\ proc.slot[proc.at[t]] = 0

EnvKnown == proc.env \in Subprocesses \cup {NoTracer}

Ordered == GilHeld /\ HandlerBusy /\ Hooked /\ ChildAlone /\ HandsEmpty /\ RunningHeld /\ EnvKnown

---------------------------------------------------------------------------
(* What an action leaves alone, and what a step of a call does.             *)

SameSelf ==
    /\ proc'.status = proc.status /\ proc'.main = proc.main /\ proc'.handler = proc.handler
    /\ proc'.dying = proc.dying /\ proc'.signalled = proc.signalled
SameTool == proc'.tool = proc.tool /\ proc'.monitored = proc.monitored /\ proc'.hooks = proc.hooks
SameActive == proc'.active = proc.active /\ proc'.entered = proc.entered
SameMarks ==
    /\ proc'.env = proc.env /\ proc'.failed = proc.failed
    /\ proc'.crossed = proc.crossed /\ proc'.overlap = proc.overlap
SameGil == proc'.gil = proc.gil
SameOwner == proc'.owner = proc.owner
SameSaved == proc'.saved = proc.saved

\* The runs and the tool are where they were.
SameTracing == SameSelf /\ SameRuns /\ SameTool /\ SameActive /\ UNCHANGED history

CallStep(t, from, to) ==
    /\ t \in Threads /\ Runs(t) /\ proc.pc[t] = from
    /\ proc'.pc = [proc.pc EXCEPT ![t] = to]

SelfIs(t, self) == proc'.at = [proc.at EXCEPT ![t] = self]
---------------------------------------------------------------------------
(* What each action of a call does, field by field.                          *)

LEMMA CallEnterDoes ==
  ASSUME proc \in Process, NEW t \in Threads, NEW tr \in Tracers, CallEnter(t, tr)
  PROVE  /\ CallStep(t, "idle", "begin") /\ SelfIs(t, tr) /\ SameTracing
         /\ SameGil /\ SameOwner /\ SameSaved /\ proc'.env = Advertised(tr) /\ proc'.failed = proc.failed
         /\ proc'.crossed = (proc.crossed \/ Crosses(t)) /\ proc'.overlap = (proc.overlap \/ Forking(t))
  BY DEF CallEnter, At, Process, SameGil, SameOwner, SameSaved, SameTracing, CallStep, SelfIs,
         SameSelf, SameRuns, SameTool, SameActive

LEMMA BeginDoes ==
  ASSUME proc \in Process, NEW t \in Threads, Begin(t)
  PROVE  /\ CallStep(t, "begin", "takeOver") /\ SelfIs(t, proc.at[t]) /\ proc.tool = 0
         /\ SameSelf /\ SameActive /\ SameMarks /\ SameOwner /\ SameSaved /\ proc'.gil = t
         /\ proc'.slot = proc.slot /\ proc'.monitored = proc.monitored
         /\ proc'.tool = NextRun /\ proc'.hand = [proc.hand EXCEPT ![t] = NextRun] /\ proc'.hooks = TRUE
         /\ made' = Append(made, proc.at[t]) /\ UNCHANGED <<inherited, finished>>
  BY DEF Begin, At, Process, SameSelf, SameActive, SameMarks, SameOwner, SameSaved, CallStep,
         SelfIs, ToolIsFree, NewRun, Self

LEMMA BeginFailsDoes ==
  ASSUME proc \in Process, NEW t \in Threads, BeginFails(t)
  PROVE  /\ CallStep(t, "begin", "idle") /\ SelfIs(t, NoTracer) /\ SameTracing
         /\ SameGil /\ SameOwner /\ SameSaved /\ proc'.env = proc.env /\ proc'.failed = TRUE
         /\ proc'.crossed = proc.crossed /\ proc'.overlap = proc.overlap
  BY DEF BeginFails, At, Process, SameGil, SameOwner, SameSaved, SameTracing, CallStep,
         SelfIs, SameSelf, SameRuns, SameTool, SameActive

LEMMA LockHandlersDoes ==
  ASSUME proc \in Process, NEW t \in Threads, LockHandlers(t)
  PROVE  /\ CallStep(t, "takeOver", "asking") /\ SelfIs(t, proc.at[t]) /\ SameTracing /\ SameMarks /\ SameSaved
         /\ proc'.owner = [proc.owner EXCEPT !["REPLACED_HANDLERS"] = t]
  BY DEF LockHandlers, At, Process, SameMarks, SameSaved, SameTracing, CallStep, SelfIs,
         SameSelf, SameRuns, SameTool, SameActive

LEMMA TakeOverDoes ==
  ASSUME proc \in Process, NEW t \in Threads, TakeOver(t)
  PROVE  /\ CallStep(t, "asking", "installed") /\ SelfIs(t, proc.at[t]) /\ SameTracing /\ SameMarks
         /\ SameOwner /\ SameSaved
  BY DEF TakeOver, At, Process, SameMarks, SameOwner, SameSaved, SameTracing, CallStep,
         SelfIs, SameSelf, SameRuns, SameTool, SameActive

LEMMA LeaveHandlersDoes ==
  ASSUME proc \in Process, NEW t \in Threads, LeaveHandlers(t)
  PROVE  /\ CallStep(t, "asking", "install") /\ SelfIs(t, proc.at[t]) /\ SameTracing /\ SameMarks /\ SameSaved
         /\ proc'.gil = t /\ proc'.owner = [proc.owner EXCEPT !["REPLACED_HANDLERS"] = NoOne]
  BY DEF LeaveHandlers, At, Process, SameMarks, SameSaved, SameTracing, CallStep, SelfIs,
         SameSelf, SameRuns, SameTool, SameActive

LEMMA KeepPreviousDoes ==
  ASSUME proc \in Process, NEW t \in Threads, KeepPrevious(t)
  PROVE  /\ CallStep(t, "installed", "install") /\ SelfIs(t, proc.at[t]) /\ SameTracing /\ SameMarks
         /\ proc'.gil = t /\ proc'.owner = [proc.owner EXCEPT !["REPLACED_HANDLERS"] = NoOne]
  BY DEF KeepPrevious, At, Process, SameMarks, SameTracing, CallStep, SelfIs, SameSelf,
         SameRuns, SameTool, SameActive

LEMMA InstallDoes ==
  ASSUME proc \in Process, NEW t \in Threads, Install(t)
  PROVE  /\ CallStep(t, "install", "publish") /\ SelfIs(t, proc.at[t]) /\ Free(proc.at[t])
         /\ SameSelf /\ SameActive /\ SameMarks /\ SameOwner /\ SameSaved /\ UNCHANGED history
         /\ proc'.gil = t /\ proc'.tool = proc.tool /\ proc'.hooks = proc.hooks
         /\ proc'.slot = [proc.slot EXCEPT ![proc.at[t]] = proc.hand[t]]
         /\ proc'.hand = [proc.hand EXCEPT ![t] = 0]
         /\ proc'.monitored = proc.monitored \cup {proc.at[t]}
  BY DEF Install, At, Process, SameSelf, SameActive, SameMarks, SameOwner, SameSaved,
         CallStep, SelfIs, Self

LEMMA PublishDoes ==
  ASSUME proc \in Process, NEW t \in Threads, Publish(t)
  PROVE  /\ CallStep(t, "publish", "idle") /\ SelfIs(t, NoTracer) /\ Free("ACTIVE")
         /\ SameSelf /\ SameRuns /\ SameTool /\ SameMarks /\ SameOwner /\ SameSaved /\ UNCHANGED history
         /\ proc'.active = proc.at[t] /\ proc'.entered = Append(proc.entered, proc.at[t])
  BY DEF Publish, At, Process, SameSelf, SameRuns, SameTool, SameMarks, SameOwner, SameSaved,
         CallStep, SelfIs, Self

LEMMA CallExitDoes ==
  ASSUME proc \in Process, NEW t \in Threads, CallExit(t)
  PROVE  /\ CallStep(t, "idle", "clear") /\ SelfIs(t, proc.entered[Len(proc.entered)]) /\ proc.entered # <<>>
         /\ SameSelf /\ SameRuns /\ SameTool /\ SameGil /\ SameOwner /\ SameSaved /\ UNCHANGED history
         /\ proc'.active = proc.active /\ proc'.entered = SubSeq(proc.entered, 1, Len(proc.entered) - 1)
         /\ proc'.env = proc.env /\ proc'.failed = proc.failed
         /\ proc'.crossed = (proc.crossed \/ Crosses(t)) /\ proc'.overlap = (proc.overlap \/ Forking(t))
  BY DEF CallExit, At, Process, SameSelf, SameRuns, SameTool, SameGil, SameOwner, SameSaved,
         CallStep, SelfIs

LEMMA ClearDoes ==
  ASSUME proc \in Process, NEW t \in Threads, Clear(t)
  PROVE  /\ CallStep(t, "clear", "handBack") /\ SelfIs(t, proc.at[t]) /\ Free("ACTIVE")
         /\ SameSelf /\ SameRuns /\ SameTool /\ SameMarks /\ SameOwner /\ SameSaved /\ UNCHANGED history
         /\ proc'.active = NoTracer /\ proc'.entered = proc.entered /\ proc'.gil = t
  BY DEF Clear, At, Process, SameSelf, SameRuns, SameTool, SameMarks, SameOwner, SameSaved,
         CallStep, SelfIs

LEMMA LockToHandBackDoes ==
  ASSUME proc \in Process, NEW t \in Threads, LockToHandBack(t)
  PROVE  /\ SelfIs(t, proc.at[t]) /\ SameTracing /\ SameMarks /\ SameSaved
         /\ \/ CallStep(t, "handBack", "stop") /\ SameOwner /\ proc.saved = "none"
            \/ /\ CallStep(t, "handBack", "handing")
               /\ proc'.owner = [proc.owner EXCEPT !["REPLACED_HANDLERS"] = t]
  BY DEF LockToHandBack, At, Process, SameMarks, SameOwner, SameSaved, SameTracing, CallStep,
         SelfIs, SameSelf, SameRuns, SameTool, SameActive

LEMMA HandBackDoes ==
  ASSUME proc \in Process, NEW t \in Threads, HandBack(t)
  PROVE  /\ CallStep(t, "handing", "stop") /\ SelfIs(t, proc.at[t]) /\ SameTracing /\ SameMarks /\ SameGil
         /\ proc'.saved = "none" /\ proc'.owner = [proc.owner EXCEPT !["REPLACED_HANDLERS"] = NoOne]
  BY DEF HandBack, At, Process, SameMarks, SameGil, SameTracing, CallStep, SelfIs, SameSelf,
         SameRuns, SameTool, SameActive

LEMMA StopAdvertisingDoes ==
  ASSUME proc \in Process, NEW t \in Threads, StopAdvertising(t)
  PROVE  /\ CallStep(t, "stop", "take") /\ SelfIs(t, proc.at[t]) /\ SameTracing
         /\ SameGil /\ SameOwner /\ SameSaved /\ proc'.env = NoTracer /\ proc'.failed = proc.failed
         /\ proc'.crossed = proc.crossed /\ proc'.overlap = proc.overlap
  BY DEF StopAdvertising, At, Process, SameGil, SameOwner, SameSaved, SameTracing, CallStep,
         SelfIs, SameSelf, SameRuns, SameTool, SameActive

LEMMA FlushDoes ==
  ASSUME proc \in Process, NEW t \in Threads, Flush(t)
  PROVE  /\ CallStep(t, "flush", "join") /\ SelfIs(t, proc.at[t]) /\ SameTracing /\ SameMarks
         /\ SameOwner /\ SameSaved
  BY DEF Flush, At, Process, SameMarks, SameOwner, SameSaved, SameTracing, CallStep, SelfIs,
         SameSelf, SameRuns, SameTool, SameActive

LEMMA JoinDoes ==
  ASSUME proc \in Process, NEW t \in Threads, Join(t)
  PROVE  /\ CallStep(t, "join", "idle") /\ SelfIs(t, NoTracer)
         /\ SameSelf /\ SameTool /\ SameActive /\ SameMarks /\ SameGil /\ SameSaved
         /\ proc'.slot = proc.slot /\ proc'.hand = [proc.hand EXCEPT ![t] = 0]
         /\ proc'.owner = [proc.owner EXCEPT ![proc.at[t]] = NoOne]
         /\ finished' = finished \cup {proc.hand[t]} /\ UNCHANGED <<made, inherited>>
  BY DEF Join, At, Process, SameSelf, SameTool, SameActive, SameMarks, SameGil, SameSaved,
         CallStep, SelfIs, Self

LEMMA CallUseDoes ==
  ASSUME proc \in Process, NEW t \in Threads, NEW tr \in Tracers, CallUse(t, tr)
  PROVE  /\ CallStep(t, "idle", "use") /\ SelfIs(t, tr) /\ SameTracing /\ SameMarks
         /\ SameGil /\ SameOwner /\ SameSaved
  BY DEF CallUse, At, Process, SameMarks, SameGil, SameOwner, SameSaved, SameTracing,
         CallStep, SelfIs, SameSelf, SameRuns, SameTool, SameActive

LEMMA UseDoes ==
  ASSUME proc \in Process, NEW t \in Threads, Use(t)
  PROVE  /\ CallStep(t, "use", "idle") /\ SelfIs(t, NoTracer) /\ SameTracing /\ SameMarks
         /\ SameOwner /\ SameSaved
  BY DEF Use, At, Process, SameMarks, SameOwner, SameSaved, SameTracing, CallStep, SelfIs,
         SameSelf, SameRuns, SameTool, SameActive

LEMMA CallForkDoes ==
  ASSUME proc \in Process, NEW t \in Threads, CallFork(t)
  PROVE  /\ CallStep(t, "idle", IF proc.hooks THEN "beforeFork" ELSE "forking") /\ SelfIs(t, proc.at[t])
         /\ SameTracing /\ SameGil /\ SameOwner /\ SameSaved
         /\ proc'.env = proc.env /\ proc'.failed = proc.failed /\ proc'.crossed = proc.crossed
         /\ proc'.overlap = (proc.overlap \/ Crosses(t) \/ Forking(t) \/ proc.handler # "none")
  BY DEF CallFork, At, Process, SameGil, SameOwner, SameSaved, SameTracing, CallStep, SelfIs,
         SameSelf, SameRuns, SameTool, SameActive

LEMMA BeforeForkDoes ==
  ASSUME proc \in Process, NEW t \in Threads, BeforeFork(t)
  PROVE  /\ CallStep(t, "beforeFork", "forking") /\ SelfIs(t, proc.at[t])
         /\ SameSelf /\ SameRuns /\ SameActive /\ SameMarks /\ SameOwner /\ SameSaved /\ UNCHANGED history
         /\ proc'.hooks = proc.hooks
         /\ proc'.tool = IF ActiveRuns THEN ToolWithout(proc.active) ELSE proc.tool
  BY DEF BeforeFork, At, Process, SameSelf, SameRuns, SameActive, SameMarks, SameOwner,
         SameSaved, CallStep, SelfIs

LEMMA ForkReturnsDoes ==
  ASSUME proc \in Process, NEW t \in Threads, ForkReturns(t)
  PROVE  /\ CallStep(t, "forking", IF proc.hooks THEN "inParent" ELSE "idle") /\ SelfIs(t, proc.at[t])
         /\ SameTracing /\ SameMarks /\ SameGil /\ SameOwner /\ SameSaved
  BY DEF ForkReturns, At, Process, SameMarks, SameGil, SameOwner, SameSaved, SameTracing,
         CallStep, SelfIs, SameSelf, SameRuns, SameTool, SameActive

LEMMA AfterForkInParentDoes ==
  ASSUME proc \in Process, NEW t \in Threads, AfterForkInParent(t)
  PROVE  /\ CallStep(t, "inParent", "idle") /\ SelfIs(t, proc.at[t])
         /\ SameSelf /\ SameRuns /\ SameActive /\ SameMarks /\ SameOwner /\ SameSaved /\ UNCHANGED history
         /\ proc'.hooks = proc.hooks
         /\ proc'.monitored = IF ActiveRuns /\ ToolIsFree THEN proc.monitored \cup {proc.active} ELSE proc.monitored
         /\ proc'.tool = IF ActiveRuns /\ ToolIsFree THEN proc.slot[proc.active] ELSE proc.tool
  BY DEF AfterForkInParent, At, Process, SameSelf, SameRuns, SameActive, SameMarks, SameOwner,
         SameSaved, CallStep, SelfIs

LEMMA TakeDoes ==
  ASSUME proc \in Process, NEW t \in Threads, Take(t), proc.at[t] \in Tracers
  PROVE  /\ SameSelf /\ SameActive /\ SameMarks /\ SameSaved /\ UNCHANGED history
         /\ proc'.hooks = proc.hooks /\ Free(proc.at[t])
         /\ \/ /\ proc.slot[proc.at[t]] = 0
               /\ CallStep(t, "take", "idle") /\ SelfIs(t, NoTracer) /\ SameTracing /\ SameOwner /\ SameGil
            \/ /\ proc.slot[proc.at[t]] # 0
               /\ CallStep(t, "take", "flush") /\ SelfIs(t, proc.at[t])
               /\ proc'.slot = [proc.slot EXCEPT ![proc.at[t]] = 0]
               /\ proc'.hand = [proc.hand EXCEPT ![t] = proc.slot[proc.at[t]]]
               /\ proc'.tool = ToolWithout(proc.at[t])
               /\ proc'.monitored = proc.monitored \ {proc.at[t]}
               /\ proc'.owner = [proc.owner EXCEPT ![proc.at[t]] = t]
  <1>1. CASE proc.slot[proc.at[t]] = 0
    BY <1>1 DEF Take, Self, At, Process, SameSelf, SameActive, SameMarks, SameSaved, SameTracing, SameRuns,
                SameTool, SameOwner, SameGil, CallStep, SelfIs, history
  <1>2. CASE proc.slot[proc.at[t]] # 0
    <2>1. proc' = [proc EXCEPT !.owner[proc.at[t]] = t, !.hand[t] = proc.slot[proc.at[t]],
                               !.slot[proc.at[t]] = 0, !.tool = ToolWithout(proc.at[t]),
                               !.monitored = @ \ {proc.at[t]}, !.pc[t] = "flush", !.gil = t]
      BY <1>2 DEF Take, Self
    <2>2. Runs(t) /\ proc.pc[t] = "take" /\ Free(proc.at[t]) /\ UNCHANGED history
      BY DEF Take, At, Self
    <2>3. QED
      BY <1>2, <2>1, <2>2 DEF Process, SameSelf, SameActive, SameMarks, SameSaved, CallStep, SelfIs
  <1>3. QED
    BY <1>1, <1>2

\* What is left in a forked child.
LEMMA ForkDoes ==
  ASSUME proc \in Process, NEW t \in Threads, Fork(t)
  PROVE  /\ Runs(t) /\ proc.pc[t] = "forking"
         /\ proc'.status = proc.status /\ proc'.main = t /\ proc'.handler = "none"
         /\ proc'.dying = 0 /\ proc'.signalled = 0
         /\ proc'.pc = [u \in Threads |-> IF u # t THEN "gone" ELSE IF proc.hooks THEN "inChild" ELSE "idle"]
         /\ proc'.at = [u \in Threads |-> NoTracer] /\ proc'.hand = [u \in Threads |-> 0]
         /\ proc'.owner = [l \in Locks |-> IF Free(l) THEN NoOne ELSE Vanished]
         /\ proc'.slot = proc.slot /\ SameTool /\ SameActive /\ SameMarks /\ SameGil /\ SameSaved
         /\ inherited' = Len(made) /\ UNCHANGED <<made, finished>>
  BY DEF Fork, Child, At, Process, SameTool, SameActive, SameMarks, SameGil, SameSaved

LEMMA SpawnDoes ==
  ASSUME proc \in Process, NEW t \in Threads, Spawn(t)
  PROVE  /\ Runs(t) /\ proc.env # NoTracer /\ proc' = Fresh(t, proc.env)
         /\ inherited' = Len(made) /\ UNCHANGED <<made, finished>>
  BY DEF Spawn, Child, At

\* The child enters what its parent advertised, and has nothing else.
LEMMA FreshHas ==
  ASSUME NEW t \in Threads, proc.env # NoTracer, proc' = Fresh(t, proc.env)
  PROVE  /\ proc'.pc = [u \in Threads |-> IF u # t THEN "gone" ELSE "begin"]
         /\ proc'.at = [u \in Threads |-> IF u = t THEN proc.env ELSE NoTracer]
         /\ proc'.hand = [u \in Threads |-> 0] /\ proc'.slot = [tr \in Tracers |-> 0]
         /\ proc'.owner = [l \in Locks |-> NoOne]
         /\ proc'.status = "alive" /\ proc'.main = t /\ proc'.gil = NoOne /\ proc'.handler = "none"
         /\ proc'.dying = 0 /\ proc'.signalled = 0 /\ proc'.tool = 0 /\ proc'.monitored = {}
         /\ proc'.active = NoTracer /\ proc'.entered = <<>> /\ proc'.env = proc.env
         /\ proc'.hooks = FALSE /\ proc'.saved = "none"
         /\ ~proc'.failed /\ ~proc'.crossed /\ ~proc'.overlap
  BY DEF Fresh

LEMMA AfterForkInChildDoes ==
  ASSUME proc \in Process, NEW t \in Threads, AfterForkInChild(t)
  PROVE  /\ CallStep(t, "inChild", "idle") /\ SelfIs(t, proc.at[t])
         /\ SameSelf /\ SameActive /\ SameMarks /\ SameOwner /\ SameSaved
         /\ proc'.hand = proc.hand /\ proc'.hooks = proc.hooks /\ UNCHANGED <<inherited, finished>>
         /\ \/ /\ proc.active \in Subprocesses /\ proc.tool = 0
               /\ proc'.slot = [proc.slot EXCEPT ![proc.active] = NextRun]
               /\ proc'.monitored = proc.monitored \cup {proc.active} /\ proc'.tool = NextRun
               /\ made' = Append(made, proc.active)
            \/ /\ ~(proc.active \in Subprocesses /\ proc.tool = 0)
               /\ proc'.slot = [proc.slot EXCEPT ![proc.active] = 0]
               /\ proc'.tool = proc.tool /\ made' = made
  <1> DEFINE begins == proc.active \in Subprocesses /\ proc.tool = 0
             slot == [x \in Tracers |-> IF x # proc.active THEN proc.slot[x] ELSE IF begins THEN NextRun ELSE 0]
             monitored == IF begins THEN proc.monitored \cup {proc.active}
                          ELSE proc.monitored \ {proc.active}
             tool == IF begins THEN NextRun ELSE proc.tool
             bare == IF begins /\ proc.disp = "default" THEN proc.bare \cup {NextRun} ELSE proc.bare
  <1>1. proc' = [proc EXCEPT !.slot = slot, !.monitored = monitored, !.tool = tool,
                             !.bare = bare, !.pc[t] = "idle", !.gil = NoOne]
    BY DEF AfterForkInChild, ToolIsFree
  <1>2. /\ Runs(t) /\ proc.pc[t] = "inChild" /\ UNCHANGED <<inherited, finished>>
        /\ made' = IF begins THEN Append(made, proc.active) ELSE made
    BY DEF AfterForkInChild, At, ToolIsFree, NewRun
  <1>3. /\ begins => slot = [proc.slot EXCEPT ![proc.active] = NextRun]
        /\ ~begins => slot = [proc.slot EXCEPT ![proc.active] = 0]
    BY DEF Process
  <1>4. begins => monitored = proc.monitored \cup {proc.active} /\ tool = NextRun
    OBVIOUS
  <1>5. ~begins => tool = proc.tool
    OBVIOUS
  <1> HIDE DEF slot, monitored, tool, bare, begins
  <1>6. /\ CallStep(t, "inChild", "idle") /\ SelfIs(t, proc.at[t])
        /\ SameSelf /\ SameActive /\ SameMarks /\ SameOwner /\ SameSaved
        /\ proc'.hand = proc.hand /\ proc'.hooks = proc.hooks
        /\ proc'.slot = slot /\ proc'.monitored = monitored /\ proc'.tool = tool
    BY <1>1, <1>2 DEF Process, CallStep, SelfIs, SameSelf, SameActive, SameMarks, SameOwner, SameSaved
  <1>7. CASE begins
    BY <1>2, <1>3, <1>4, <1>6, <1>7 DEF begins
  <1>8. CASE ~begins
    BY <1>2, <1>3, <1>5, <1>6, <1>8 DEF begins
  <1>9. QED
    BY <1>7, <1>8

\* No call goes on.
SameCalls == proc'.pc = proc.pc /\ proc'.at = proc.at

LEMMA UserHandlesDoes ==
  ASSUME proc \in Process, UserHandles
  PROVE  SameCalls /\ SameTracing /\ SameMarks /\ SameGil /\ SameOwner /\ SameSaved
  BY DEF UserHandles, Process, SameCalls, SameTracing, SameSelf, SameRuns, SameTool, SameActive, SameMarks,
         SameGil, SameOwner, SameSaved

LEMMA WaitsDoes ==
  ASSUME proc \in Process, NEW t \in Threads, Waits(t)
  PROVE  SameCalls /\ SameTracing /\ SameMarks /\ SameOwner /\ SameSaved /\ proc.gil = NoOne
  BY DEF Waits, Process, SameCalls, SameTracing, SameSelf, SameRuns, SameTool, SameActive, SameMarks,
         SameOwner, SameSaved

LEMMA ReadTailsDoes ==
  ASSUME proc \in Process, NEW r \in DOMAIN made, ReadTails(r) \/ ReadTailsEnd(r)
  PROVE  /\ SameCalls /\ SameTracing /\ SameMarks /\ SameGil /\ SameSaved
         /\ \E who \in {Exporter, NoOne} : proc'.owner = [proc.owner EXCEPT !["RECORDERS"] = who]
  <1>1. PICK who \in {Exporter, NoOne} : proc' = [proc EXCEPT !.owner["RECORDERS"] = who]
    BY DEF ReadTails, ReadTailsEnd
  <1>2. UNCHANGED history
    BY DEF ReadTails, ReadTailsEnd
  <1>3. QED
    BY <1>1, <1>2 DEF Process, SameCalls, SameTracing, SameSelf, SameRuns, SameTool, SameActive, SameMarks,
                      SameGil, SameSaved

LEMMA DeliverDoes ==
  ASSUME proc \in Process, Deliver
  PROVE  /\ SameCalls /\ SameRuns /\ SameTool /\ SameActive /\ SameGil /\ SameOwner /\ SameSaved
         /\ proc'.status = proc.status /\ proc'.main = proc.main /\ proc'.dying = proc.dying
         /\ proc'.env = proc.env /\ proc'.failed = proc.failed /\ proc'.crossed = proc.crossed
         /\ proc.status = "alive" /\ proc.gil = NoOne /\ proc.handler = "none" /\ proc.pc[proc.main] # "join"
         /\ proc'.signalled = Len(made) /\ proc'.handler = "asked"
         /\ proc'.overlap = (proc.overlap \/ Forking(proc.main)) /\ UNCHANGED history
  BY DEF Deliver, Process, SameCalls, SameRuns, SameTool, SameActive, SameGil, SameOwner, SameSaved

LEMMA KilledDoes ==
  ASSUME proc \in Process, Killed
  PROVE  /\ SameCalls /\ SameRuns /\ SameTool /\ SameActive /\ SameMarks /\ SameGil /\ SameOwner /\ SameSaved
         /\ proc'.main = proc.main /\ proc'.dying = proc.dying /\ proc.status = "alive"
         /\ proc.handler = "none" /\ proc'.handler = "none"
         /\ proc'.signalled = Len(made) /\ UNCHANGED history
  BY DEF Killed, Process, SameCalls, SameRuns, SameTool, SameActive, SameMarks, SameGil, SameOwner, SameSaved

HandlerStep(from, to) ==
    /\ proc.status = "alive" /\ proc.gil \in {NoOne, proc.main}
    /\ proc.handler = from /\ proc'.handler = to
    /\ proc'.main = proc.main /\ proc'.signalled = proc.signalled
    /\ SameCalls /\ SameMarks /\ SameSaved

LEMMA LookUpDoes ==
  ASSUME proc \in Process, LookUp
  PROVE  /\ SameRuns /\ SameTool /\ SameActive /\ SameOwner /\ UNCHANGED history
         /\ proc'.status = proc.status /\ proc'.dying = proc.dying /\ Free("REPLACED_HANDLERS")
         /\ \/ HandlerStep("asked", "ending") /\ proc.saved = "default"
            \/ HandlerStep("asked", "none")
  BY DEF LookUp, Handles, Process, HandlerStep, SameCalls, SameRuns, SameTool, SameActive, SameOwner, SameMarks,
         SameSaved

\* The handler ends the active run, or goes on without it.
Ends ==
    /\ ActiveFree /\ ActiveRuns
    /\ proc'.handler = "flush" /\ proc'.dying = proc.slot[proc.active]
    /\ proc'.owner = [proc.owner EXCEPT !["ACTIVE"] = proc.main, ![proc.active] = proc.main]
    /\ proc'.slot = [proc.slot EXCEPT ![proc.active] = 0]
    /\ proc'.tool = ToolWithout(proc.active)

LEMMA EndActiveDoes ==
  ASSUME proc \in Process, EndActive
  PROVE  /\ proc'.status = proc.status /\ proc'.hand = proc.hand /\ SameActive /\ proc'.hooks = proc.hooks
         /\ UNCHANGED history
         /\ \/ HandlerStep("ending", "flush") /\ Ends
            \/ /\ HandlerStep("ending", "raise") /\ ~(ActiveFree /\ ActiveRuns)
               /\ SameRuns /\ SameTool /\ SameOwner /\ proc'.dying = proc.dying
  <1>1. CASE ~(ActiveFree /\ ActiveRuns)
    BY <1>1 DEF EndActive, Handles, Process, HandlerStep, SameCalls, SameRuns, SameTool, SameActive, SameOwner,
                SameMarks, SameSaved
  <1>2. CASE ActiveFree /\ ActiveRuns
    <2>1. proc' = [proc EXCEPT !.owner["ACTIVE"] = proc.main, !.owner[proc.active] = proc.main,
                               !.dying = proc.slot[proc.active], !.slot[proc.active] = 0,
                               !.tool = ToolWithout(proc.active),
                               !.monitored = @ \ {proc.active}, !.handler = "flush"]
      BY <1>2 DEF EndActive
    <2>2. /\ proc.status = "alive" /\ proc.gil \in {NoOne, proc.main} /\ proc.handler = "ending"
          /\ UNCHANGED history
      BY DEF EndActive, Handles
    <2>3. QED
      BY <1>2, <2>1, <2>2 DEF Process, HandlerStep, Ends, SameCalls, SameActive, SameMarks, SameSaved
  <1>3. QED
    BY <1>1, <1>2

LEMMA HandlerFlushDoes ==
  ASSUME proc \in Process, HandlerFlush
  PROVE  /\ HandlerStep("flush", "join") /\ SameRuns /\ SameTool /\ SameActive /\ SameOwner
         /\ proc'.status = proc.status /\ proc'.dying = proc.dying /\ UNCHANGED history
  BY DEF HandlerFlush, Handles, Process, HandlerStep, SameCalls, SameRuns, SameTool, SameActive, SameOwner,
         SameMarks, SameSaved

LEMMA HandlerJoinDoes ==
  ASSUME proc \in Process, HandlerJoin
  PROVE  /\ HandlerStep("join", "raise") /\ SameRuns /\ SameTool /\ SameActive
         /\ proc'.status = proc.status /\ proc'.dying = 0
         /\ proc'.owner = [proc.owner EXCEPT !["ACTIVE"] = NoOne, ![proc.active] = NoOne]
         /\ finished' = finished \cup {proc.dying} /\ UNCHANGED <<made, inherited>>
  BY DEF HandlerJoin, Handles, Process, HandlerStep, SameCalls, SameRuns, SameTool, SameActive, SameMarks,
         SameSaved

LEMMA RaiseDoes ==
  ASSUME proc \in Process, Raise
  PROVE  /\ HandlerStep("raise", "raise") /\ SameRuns /\ SameTool /\ SameActive /\ SameOwner
         /\ proc'.dying = proc.dying /\ UNCHANGED history
  BY DEF Raise, Handles, Process, HandlerStep, SameCalls, SameRuns, SameTool, SameActive, SameOwner, SameMarks,
         SameSaved

---------------------------------------------------------------------------
(* Ordered is kept.                                                         *)

\* Who may take a step has the GIL to himself.
LEMMA NobodyKeepsGil ==
  ASSUME proc \in Process, GilHeld, NEW t \in Threads, Runs(t)
  PROVE  \A u \in Threads \ {t} : proc.pc[u] \notin KeepsGil
  BY LocksDiffer DEF GilHeld, Runs

\* Nor does anybody while the handler takes a step.
LEMMA NobodyGoesOn ==
  ASSUME proc \in Process, GilHeld, proc.gil \in {NoOne, proc.main},
         proc.gil = NoOne \/ proc.handler # "none"
  PROVE  \A u \in Threads : proc.pc[u] \notin KeepsGil
  BY LocksDiffer, ProcessFields DEF GilHeld

\* No call takes a step between LookUp and EndActive.
LEMMA EndsAtOnce ==
  ASSUME IInv, NEW t \in Threads, Runs(t)
  PROVE  proc.handler # "ending"
  BY LocksDiffer, ProcessFields DEF IInv, TypeOK, Discipline, GilKept, Runs

\* A step of a call, in terms of what Ordered is about.
LEMMA CallOrders ==
  ASSUME IInv, IInv', Ordered, NEW t \in Threads, NEW from \in Steps \ {"gone"}, NEW to \in Steps \ {"inChild"},
         CallStep(t, from, to), SameSelf, Len(made) <= Len(made'),
         \A u \in Threads \ {t} : proc'.at[u] = proc.at[u] /\ proc'.hand[u] = proc.hand[u],
         to \in KeepsGil => proc'.gil = t,
         proc'.active = proc.active \/ Free("ACTIVE"),
         ~proc'.hooks => ~proc.hooks /\ proc'.tool = 0 /\ proc'.slot = proc.slot /\ proc'.hand[t] = 0,
         to \notin Starting \cup Finishing => proc'.hand[t] = 0,
         to \in Finishing => proc'.owner[proc'.at[t]] = t /\ proc'.slot[proc'.at[t]] = 0,
         \A x \in Tracers : ~Free(x) /\ proc.owner[x] # t =>
             proc'.owner[x] = proc.owner[x] /\ proc'.slot[x] \in {0, proc.slot[x]},
         proc'.env \in Subprocesses \cup {NoTracer}
  PROVE  Ordered'
  <1> USE LocksDiffer, ProcessFields DEF CallStep
  <1>1. proc \in Process /\ proc' \in Process /\ Discipline /\ made \in Seq(Tracers) /\ made' \in Seq(Tracers)
    BY DEF IInv, TypeOK
  <1>2. /\ proc'.pc[t] = to /\ proc.pc[t] = from
        /\ \A u \in Threads \ {t} : proc'.pc[u] = proc.pc[u]
    BY <1>1
  <1>3. GilHeld'
    <2>1. \A u \in Threads \ {t} : proc.pc[u] \notin KeepsGil
      BY <1>1, NobodyKeepsGil DEF Ordered
    <2>2. QED
      BY <1>2, <2>1 DEF GilHeld, SameSelf, Runs
  <1>4. HandlerBusy'
    <2>1. proc.handler # "ending"
      BY EndsAtOnce
    <2>2. proc.handler # "none" => t # proc.main /\ proc'.pc[proc.main] = proc.pc[proc.main]
      BY <1>1, <1>2 DEF Runs
    <2>3. proc.handler \in {"flush", "join"} =>
            proc'.active \in Tracers /\ proc'.owner[proc'.active] = proc.main
      <3> SUFFICES ASSUME proc.handler \in {"flush", "join"}
                   PROVE  proc'.active \in Tracers /\ proc'.owner[proc'.active] = proc.main
        OBVIOUS
      <3>1. proc.owner["ACTIVE"] = proc.main /\ proc.main # NoOne /\ proc.main # t
        BY <1>1, <2>2 DEF Discipline, Holders
      <3>2. proc'.active = proc.active
        BY <3>1 DEF Free
      <3>3. proc.active \in Tracers /\ proc.owner[proc.active] = proc.main
        BY DEF Ordered, HandlerBusy
      <3>4. QED
        BY <3>1, <3>2, <3>3 DEF Free
    <2>4. proc'.signalled <= Len(made')
      <3>1. proc.signalled \in Nat
        BY <1>1 DEF Process
      <3>2. Len(made) \in Nat /\ Len(made') \in Nat
        BY <1>1
      <3>3. proc.signalled <= Len(made) /\ proc'.signalled = proc.signalled
        BY DEF Ordered, HandlerBusy, SameSelf
      <3>4. QED
        BY <3>1, <3>2, <3>3
    <2>5. proc'.handler # "none" => proc'.pc[proc'.main] # "join"
      BY <2>2 DEF Ordered, HandlerBusy, SameSelf
    <2>6. proc'.handler \in {"ending", "flush", "join", "raise"} =>
            proc'.pc[proc'.main] \notin Starting \cup Finishing \cup {"publish"}
      BY <2>2 DEF Ordered, HandlerBusy, SameSelf
    <2>7. proc'.status = "dead" => proc'.handler \in {"raise", "none"}
      BY DEF Ordered, HandlerBusy, SameSelf
    <2>8. QED
      BY <2>1, <2>3, <2>4, <2>5, <2>6, <2>7 DEF HandlerBusy, SameSelf
  <1>5. Hooked'
    BY <1>1, <1>2 DEF Ordered, Hooked
  <1>6. ChildAlone'
    <2>1. \A u \in Threads : proc.pc[u] = "inChild" => u = t
      BY <1>2 DEF Ordered, ChildAlone, Others
    <2>2. QED
      BY <1>2, <2>1 DEF ChildAlone
  <1>7. HandsEmpty'
    BY <1>2 DEF Ordered, HandsEmpty, SameSelf
  <1>8. RunningHeld'
    <2> SUFFICES ASSUME NEW u \in Threads, proc'.pc[u] \in Finishing
                 PROVE  proc'.owner[proc'.at[u]] = u /\ proc'.slot[proc'.at[u]] = 0
      BY DEF RunningHeld
    <2>1. CASE u = t
      BY <1>2, <2>1
    <2>2. CASE u # t
      <3>1. proc.pc[u] \in Finishing /\ proc'.at[u] = proc.at[u]
        BY <1>2, <2>2
      <3>2. proc.at[u] \in Tracers
        BY <1>1, <3>1 DEF Discipline, SelfInCall, InCall, Steps, Finishing
      <3>3. proc.owner[proc.at[u]] = u /\ proc.slot[proc.at[u]] = 0
        BY <3>1 DEF Ordered, RunningHeld
      <3>4. QED
        BY <2>2, <3>1, <3>2, <3>3 DEF Free
    <2>3. QED
      BY <2>1, <2>2
  <1>9. EnvKnown'
    BY DEF EnvKnown
  <1>10. QED
    BY <1>3, <1>4, <1>5, <1>6, <1>7, <1>8, <1>9 DEF Ordered

\* A step of a call that leaves the runs and the tool where they are.
LEMMA QuietOrders ==
  ASSUME IInv, IInv', Ordered, NEW t \in Threads, NEW from \in Steps \ {"gone"}, NEW to \in Steps \ {"inChild"},
         CallStep(t, from, to), NEW self, SelfIs(t, self), SameTracing,
         to \in KeepsGil => proc'.gil = t,
         to \in Starting \cup Finishing <=> from \in Starting \cup Finishing,
         to \in Finishing => from \in Finishing /\ self = proc.at[t],
         \A x \in Tracers : proc'.owner[x] = proc.owner[x],
         proc'.env \in Subprocesses \cup {NoTracer}
  PROVE  Ordered'
  <1>1. proc \in Process /\ made' = made /\ Len(made) \in Nat
    BY DEF IInv, TypeOK, SameTracing, history
  <1>2. \A u \in Threads \ {t} : proc'.at[u] = proc.at[u] /\ proc'.hand[u] = proc.hand[u]
    BY <1>1, ProcessFields DEF SelfIs, SameTracing, SameRuns
  <1>3. to \notin Starting \cup Finishing => proc'.hand[t] = 0
    BY DEF Ordered, HandsEmpty, CallStep, SameTracing, SameRuns
  <1>4. to \in Finishing => proc'.owner[proc'.at[t]] = t /\ proc'.slot[proc'.at[t]] = 0
    <2> SUFFICES ASSUME to \in Finishing PROVE proc'.owner[proc'.at[t]] = t /\ proc'.slot[proc'.at[t]] = 0
      OBVIOUS
    <2>1. proc.pc[t] \in Finishing /\ proc'.at[t] = proc.at[t]
      BY <1>1, ProcessFields DEF CallStep, SelfIs
    <2>2. proc.at[t] \in Tracers
      BY <2>1 DEF IInv, Discipline, SelfInCall, InCall, Steps, Finishing
    <2>3. QED
      BY <2>1, <2>2 DEF Ordered, RunningHeld, SameTracing, SameRuns
  <1>5. ~proc'.hooks => ~proc.hooks /\ proc'.tool = 0 /\ proc'.slot = proc.slot /\ proc'.hand[t] = 0
    BY DEF Ordered, Hooked, SameTracing, SameRuns, SameTool
  <1>6. \A x \in Tracers : ~Free(x) /\ proc.owner[x] # t =>
             proc'.owner[x] = proc.owner[x] /\ proc'.slot[x] \in {0, proc.slot[x]}
    BY DEF SameTracing, SameRuns
  <1>7. Len(made) <= Len(made')
    BY <1>1
  <1>8. SameSelf /\ proc'.active = proc.active
    BY DEF SameTracing, SameActive
  <1>9. QED
    BY <1>2, <1>3, <1>4, <1>5, <1>6, <1>7, <1>8, CallOrders

\* The locks of the tracers are others than REPLACED_HANDLERS.
LEMMA TracersOwned ==
  ASSUME proc \in Process, NEW who, proc'.owner = [proc.owner EXCEPT !["REPLACED_HANDLERS"] = who]
  PROVE  \A x \in Tracers : proc'.owner[x] = proc.owner[x]
  BY LocksDiffer, ProcessFields

LEMMA EntersOrdered ==
  ASSUME IInv, IInv', Ordered, NEW t \in Threads, Enters(t)
  PROVE  Ordered'
  <1> USE DEF Steps, Starting, Finishing, KeepsGil
  <1>1. proc \in Process /\ Discipline
    BY DEF IInv, TypeOK
  <1>2. proc.env \in Subprocesses \cup {NoTracer}
    BY DEF Ordered, EnvKnown
  <1>3. ASSUME NEW tr \in Tracers, CallEnter(t, tr) PROVE Ordered'
    <2>1. proc'.env \in Subprocesses \cup {NoTracer}
      BY <1>1, <1>3, CallEnterDoes DEF Advertised
    <2>2. QED
      BY <1>1, <1>3, <2>1, CallEnterDoes, QuietOrders DEF SameOwner
  <1>4. CASE BeginFails(t)
    <2>1. /\ CallStep(t, "begin", "idle") /\ SelfIs(t, NoTracer) /\ SameTracing
          /\ SameOwner /\ proc'.env = proc.env
      BY <1>1, <1>4, BeginFailsDoes
    <2>2. QED
      BY <1>2, <2>1, QuietOrders DEF SameOwner
  <1>5. CASE LockHandlers(t)
    <2>1. /\ CallStep(t, "takeOver", "asking") /\ SelfIs(t, proc.at[t]) /\ SameTracing /\ SameMarks
          /\ \A x \in Tracers : proc'.owner[x] = proc.owner[x]
      BY <1>1, <1>5, LockHandlersDoes, TracersOwned
    <2>2. QED
      BY <1>2, <2>1, QuietOrders DEF SameMarks
  <1>6. CASE TakeOver(t)
    BY <1>1, <1>2, <1>6, TakeOverDoes, QuietOrders DEF SameMarks, SameOwner
  <1>7. CASE LeaveHandlers(t)
    <2>1. \A x \in Tracers : proc'.owner[x] = proc.owner[x]
      BY <1>1, <1>7, LeaveHandlersDoes, TracersOwned
    <2>2. QED
      BY <1>1, <1>2, <1>7, <2>1, LeaveHandlersDoes, QuietOrders DEF SameMarks
  <1>8. CASE KeepPrevious(t)
    <2>1. \A x \in Tracers : proc'.owner[x] = proc.owner[x]
      BY <1>1, <1>8, KeepPreviousDoes, TracersOwned
    <2>2. QED
      BY <1>1, <1>2, <1>8, <2>1, KeepPreviousDoes, QuietOrders DEF SameMarks
  <1>9. CASE Begin(t)
    <2>1. /\ CallStep(t, "begin", "takeOver") /\ SelfIs(t, proc.at[t]) /\ SameSelf /\ SameActive /\ SameMarks
          /\ SameOwner /\ proc'.gil = t /\ proc'.slot = proc.slot /\ proc'.hooks = TRUE
          /\ proc'.hand = [proc.hand EXCEPT ![t] = NextRun] /\ made' = Append(made, proc.at[t])
      BY <1>1, <1>9, BeginDoes
    <2>2. \A u \in Threads \ {t} : proc'.at[u] = proc.at[u] /\ proc'.hand[u] = proc.hand[u]
      BY <1>1, <2>1, ProcessFields DEF SelfIs
    <2>3. Len(made) <= Len(made')
      <3>1. proc.at[t] \in Tracers /\ made \in Seq(Tracers)
        BY <2>1 DEF IInv, TypeOK, Discipline, SelfInCall, InCall, CallStep
      <3>2. QED
        BY <2>1, <3>1
    <2>4. proc'.env \in Subprocesses \cup {NoTracer} /\ proc'.active = proc.active
      BY <1>2, <2>1 DEF SameMarks, SameActive
    <2>5. \A x \in Tracers : proc'.owner[x] = proc.owner[x] /\ proc'.slot[x] = proc.slot[x]
      BY <2>1 DEF SameOwner
    <2>6. QED
      BY <2>1, <2>2, <2>3, <2>4, <2>5, CallOrders
  <1>10. CASE Install(t)
    <2>1. /\ CallStep(t, "install", "publish") /\ SelfIs(t, proc.at[t]) /\ Free(proc.at[t])
          /\ SameSelf /\ SameActive /\ SameMarks /\ SameOwner /\ UNCHANGED history
          /\ proc'.gil = t /\ proc'.tool = proc.tool /\ proc'.hooks = proc.hooks
          /\ proc'.slot = [proc.slot EXCEPT ![proc.at[t]] = proc.hand[t]]
          /\ proc'.hand = [proc.hand EXCEPT ![t] = 0]
      BY <1>1, <1>10, InstallDoes
    <2>2. /\ \A u \in Threads \ {t} : proc'.at[u] = proc.at[u] /\ proc'.hand[u] = proc.hand[u]
          /\ proc'.hand[t] = 0
      BY <1>1, <2>1, ProcessFields DEF SelfIs
    <2>3. Len(made) <= Len(made')
      BY <2>1 DEF history, IInv, TypeOK
    <2>4. proc'.env \in Subprocesses \cup {NoTracer} /\ proc'.active = proc.active
      BY <1>2, <2>1 DEF SameMarks, SameActive
    <2>5. \A x \in Tracers : ~Free(x) => proc'.owner[x] = proc.owner[x] /\ proc'.slot[x] = proc.slot[x]
      BY <1>1, <2>1, ProcessFields DEF SameOwner
    <2>6. ~proc'.hooks => ~proc.hooks /\ proc'.tool = 0 /\ proc'.slot = proc.slot /\ proc'.hand[t] = 0
      BY <1>1, <2>1, <2>2, ProcessFields DEF Ordered, Hooked
    <2>7. QED
      BY <2>1, <2>2, <2>3, <2>4, <2>5, <2>6, CallOrders
  <1>11. CASE Publish(t)
    <2>1. /\ CallStep(t, "publish", "idle") /\ SelfIs(t, NoTracer) /\ Free("ACTIVE")
          /\ SameSelf /\ SameRuns /\ SameTool /\ SameMarks /\ SameOwner /\ UNCHANGED history
      BY <1>1, <1>11, PublishDoes
    <2>2. \A u \in Threads \ {t} : proc'.at[u] = proc.at[u] /\ proc'.hand[u] = proc.hand[u]
      BY <1>1, <2>1, ProcessFields DEF SelfIs, SameRuns
    <2>3. Len(made) <= Len(made')
      BY <2>1 DEF history, IInv, TypeOK
    <2>4. proc'.env \in Subprocesses \cup {NoTracer}
      BY <1>2, <2>1 DEF SameMarks
    <2>5. \A x \in Tracers : proc'.owner[x] = proc.owner[x] /\ proc'.slot[x] = proc.slot[x]
      BY <2>1 DEF SameOwner, SameRuns
    <2>6. proc'.hand[t] = 0
      BY <2>1 DEF Ordered, HandsEmpty, CallStep, SameRuns
    <2>7. ~proc'.hooks => ~proc.hooks /\ proc'.tool = 0 /\ proc'.slot = proc.slot
      BY <2>1 DEF Ordered, Hooked, SameTool, SameRuns
    <2>8. QED
      BY <2>1, <2>2, <2>3, <2>4, <2>5, <2>6, <2>7, CallOrders
  <1>12. QED
    BY <1>3, <1>4, <1>5, <1>6, <1>7, <1>8, <1>9, <1>10, <1>11 DEF Enters

LEMMA LeavesOrdered ==
  ASSUME IInv, IInv', Ordered, NEW t \in Threads, Leaves(t)
  PROVE  Ordered'
  <1> USE DEF Steps, Starting, Finishing, KeepsGil
  <1>1. proc \in Process /\ proc' \in Process /\ Discipline
    BY DEF IInv, TypeOK
  <1>2. proc.env \in Subprocesses \cup {NoTracer}
    BY DEF Ordered, EnvKnown
  <1>3. CASE CallExit(t) \/ Clear(t)
    <2>1. PICK self : SelfIs(t, self)
      BY <1>1, <1>3, CallExitDoes, ClearDoes
    <2>2. PICK from \in {"idle", "clear"}, to \in {"clear", "handBack"} :
            /\ CallStep(t, from, to) /\ SameSelf /\ SameRuns /\ SameTool /\ SameOwner /\ UNCHANGED history
            /\ proc'.env = proc.env /\ (to \in KeepsGil => proc'.gil = t)
            /\ proc'.active = proc.active \/ Free("ACTIVE")
      BY <1>1, <1>3, CallExitDoes, ClearDoes DEF SameMarks
    <2>3. \A u \in Threads \ {t} : proc'.at[u] = proc.at[u] /\ proc'.hand[u] = proc.hand[u]
      BY <1>1, <2>1, <2>2, ProcessFields DEF SelfIs, SameRuns
    <2>4. Len(made) <= Len(made')
      BY <2>2 DEF history, IInv, TypeOK
    <2>5. \A x \in Tracers : proc'.owner[x] = proc.owner[x] /\ proc'.slot[x] = proc.slot[x]
      BY <2>2 DEF SameOwner, SameRuns
    <2>6. proc'.hand[t] = 0
      BY <2>2 DEF Ordered, HandsEmpty, CallStep, SameRuns
    <2>7. ~proc'.hooks => ~proc.hooks /\ proc'.tool = 0 /\ proc'.slot = proc.slot
      BY <2>2 DEF Ordered, Hooked, SameTool, SameRuns
    <2>8. QED
      BY <1>2, <2>2, <2>3, <2>4, <2>5, <2>6, <2>7, CallOrders
  <1>4. CASE LockToHandBack(t)
    <2>1. PICK to \in {"stop", "handing"} : CallStep(t, "handBack", to)
      BY <1>1, <1>4, LockToHandBackDoes
    <2>2. SelfIs(t, proc.at[t]) /\ SameTracing /\ SameMarks
      BY <1>1, <1>4, LockToHandBackDoes
    <2>3. \A x \in Tracers : proc'.owner[x] = proc.owner[x]
      BY <1>1, <1>4, LockToHandBackDoes, TracersOwned DEF SameOwner
    <2>4. QED
      BY <1>2, <2>1, <2>2, <2>3, QuietOrders DEF SameMarks
  <1>5. CASE HandBack(t)
    <2>1. /\ CallStep(t, "handing", "stop") /\ SelfIs(t, proc.at[t]) /\ SameTracing /\ SameMarks
          /\ \A x \in Tracers : proc'.owner[x] = proc.owner[x]
      BY <1>1, <1>5, HandBackDoes, TracersOwned
    <2>2. QED
      BY <1>2, <2>1, QuietOrders DEF SameMarks
  <1>6. CASE StopAdvertising(t)
    <2>1. /\ CallStep(t, "stop", "take") /\ SelfIs(t, proc.at[t]) /\ SameTracing /\ SameOwner
          /\ proc'.env = NoTracer
      BY <1>1, <1>6, StopAdvertisingDoes
    <2>2. QED
      BY <2>1, QuietOrders DEF SameOwner
  <1>7. CASE Take(t)
    <2>1. proc.at[t] \in Tracers
      BY <1>1, <1>7 DEF Take, At, Discipline, SelfInCall, InCall
    <2>2. /\ SameSelf /\ SameActive /\ SameMarks /\ UNCHANGED history /\ proc'.hooks = proc.hooks
          /\ Free(proc.at[t])
      BY <1>1, <1>7, <2>1, TakeDoes
    <2>3. CASE proc.slot[proc.at[t]] = 0
      <3>1. CallStep(t, "take", "idle") /\ SelfIs(t, NoTracer) /\ SameTracing /\ SameOwner
        BY <1>1, <1>7, <2>1, <2>3, TakeDoes
      <3>2. QED
        BY <1>2, <2>2, <3>1, QuietOrders DEF SameMarks, SameOwner
    <2>4. CASE proc.slot[proc.at[t]] # 0
      <3>1. /\ CallStep(t, "take", "flush") /\ SelfIs(t, proc.at[t])
            /\ proc'.slot = [proc.slot EXCEPT ![proc.at[t]] = 0]
            /\ proc'.hand = [proc.hand EXCEPT ![t] = proc.slot[proc.at[t]]]
            /\ proc'.owner = [proc.owner EXCEPT ![proc.at[t]] = t]
        BY <1>1, <1>7, <2>1, <2>4, TakeDoes
      <3>2. /\ \A u \in Threads \ {t} : proc'.at[u] = proc.at[u] /\ proc'.hand[u] = proc.hand[u]
            /\ proc'.at[t] = proc.at[t]
        BY <1>1, <3>1, ProcessFields DEF SelfIs
      <3>3. Len(made) <= Len(made')
        BY <2>2 DEF history, IInv, TypeOK
      <3>4. proc'.env \in Subprocesses \cup {NoTracer} /\ proc'.active = proc.active
        BY <1>2, <2>2 DEF SameMarks, SameActive
      <3>5. \A x \in Tracers : ~Free(x) => proc'.owner[x] = proc.owner[x] /\ proc'.slot[x] = proc.slot[x]
        BY <1>1, <2>1, <2>2, <3>1, ProcessFields, LocksDiffer
      <3>6. proc'.owner[proc'.at[t]] = t /\ proc'.slot[proc'.at[t]] = 0
        BY <1>1, <2>1, <3>1, <3>2, ProcessFields, LocksDiffer
      <3>7. proc'.hooks
        BY <2>1, <2>2, <2>4 DEF Ordered, Hooked
      <3>8. QED
        BY <2>2, <3>1, <3>2, <3>3, <3>4, <3>5, <3>6, <3>7, CallOrders
    <2>5. QED
      BY <2>3, <2>4
  <1>8. CASE Flush(t)
    <2>1. CallStep(t, "flush", "join") /\ SelfIs(t, proc.at[t]) /\ SameTracing /\ SameMarks /\ SameOwner
      BY <1>1, <1>8, FlushDoes
    <2>2. QED
      BY <1>2, <2>1, QuietOrders DEF SameMarks, SameOwner
  <1>9. CASE Join(t)
    <2>1. /\ CallStep(t, "join", "idle") /\ SelfIs(t, NoTracer) /\ SameSelf /\ SameTool /\ SameActive /\ SameMarks
          /\ proc'.slot = proc.slot /\ proc'.hand = [proc.hand EXCEPT ![t] = 0]
          /\ proc'.owner = [proc.owner EXCEPT ![proc.at[t]] = NoOne] /\ made' = made
      BY <1>1, <1>9, JoinDoes
    <2>2. /\ \A u \in Threads \ {t} : proc'.at[u] = proc.at[u] /\ proc'.hand[u] = proc.hand[u]
          /\ proc'.hand[t] = 0
      BY <1>1, <2>1, ProcessFields DEF SelfIs
    <2>3. Len(made) <= Len(made')
      BY <2>1 DEF IInv, TypeOK
    <2>4. proc'.env \in Subprocesses \cup {NoTracer} /\ proc'.active = proc.active
      BY <1>2, <2>1 DEF SameMarks, SameActive
    <2>5. \A x \in Tracers : proc.owner[x] # t => proc'.owner[x] = proc.owner[x] /\ proc'.slot[x] = proc.slot[x]
      <3>1. proc.owner[proc.at[t]] = t
        BY <2>1 DEF Ordered, RunningHeld, CallStep
      <3>2. QED
        BY <1>1, <2>1, <3>1, ProcessFields, LocksDiffer
    <2>6. ~proc'.hooks => ~proc.hooks /\ proc'.tool = 0
      BY <2>1 DEF Ordered, Hooked, SameTool
    <2>7. QED
      BY <2>1, <2>2, <2>3, <2>4, <2>5, <2>6, CallOrders
  <1>10. QED
    BY <1>3, <1>4, <1>5, <1>6, <1>7, <1>8, <1>9 DEF Leaves

LEMMA ForksOrdered ==
  ASSUME IInv, IInv', Ordered, NEW t \in Threads, Forks(t)
  PROVE  Ordered'
  <1> USE DEF Steps, Starting, Finishing, KeepsGil
  <1>1. proc \in Process /\ proc' \in Process /\ Discipline /\ Len(made) \in Nat /\ made \in Seq(Tracers)
    BY DEF IInv, TypeOK
  <1>2. proc.env \in Subprocesses \cup {NoTracer}
    BY DEF Ordered, EnvKnown
  <1>3. CASE CallFork(t)
    <2>1. PICK to \in {"beforeFork", "forking"} : CallStep(t, "idle", to)
      BY <1>1, <1>3, CallForkDoes
    <2>2. SelfIs(t, proc.at[t]) /\ SameTracing /\ SameOwner /\ proc'.env = proc.env
      BY <1>1, <1>3, CallForkDoes
    <2>3. QED
      BY <1>2, <2>1, <2>2, QuietOrders DEF SameOwner
  <1>4. CASE ForkReturns(t)
    <2>1. PICK to \in {"inParent", "idle"} : CallStep(t, "forking", to)
      BY <1>1, <1>4, ForkReturnsDoes
    <2>2. SelfIs(t, proc.at[t]) /\ SameTracing /\ SameOwner /\ SameMarks
      BY <1>1, <1>4, ForkReturnsDoes
    <2>3. QED
      BY <1>2, <2>1, <2>2, QuietOrders DEF SameMarks, SameOwner
  <1>5. CASE BeforeFork(t) \/ AfterForkInParent(t)
    <2>1. PICK from \in {"beforeFork", "inParent"}, to \in {"forking", "idle"} :
            /\ CallStep(t, from, to) /\ SelfIs(t, proc.at[t])
            /\ SameSelf /\ SameRuns /\ SameActive /\ SameMarks /\ SameOwner /\ UNCHANGED history
            /\ proc'.hooks = proc.hooks
      BY <1>1, <1>5, BeforeForkDoes, AfterForkInParentDoes
    <2>2. ~ActiveRuns => proc'.tool = proc.tool
      BY <1>1, <1>5, BeforeForkDoes, AfterForkInParentDoes
    <2>3. \A u \in Threads \ {t} : proc'.at[u] = proc.at[u] /\ proc'.hand[u] = proc.hand[u]
      BY <1>1, <2>1, ProcessFields DEF SelfIs, SameRuns
    <2>4. Len(made) <= Len(made')
      BY <1>1, <2>1 DEF history
    <2>5. \A x \in Tracers : proc'.owner[x] = proc.owner[x] /\ proc'.slot[x] = proc.slot[x]
      BY <2>1 DEF SameOwner, SameRuns
    <2>6. proc'.hand[t] = 0
      BY <2>1 DEF Ordered, HandsEmpty, CallStep, SameRuns
    <2>7. ~proc'.hooks => ~proc.hooks /\ proc'.tool = 0 /\ proc'.slot = proc.slot
      BY <1>1, <2>1, <2>2, ProcessFields DEF Ordered, Hooked, SameRuns, ActiveRuns
    <2>8. proc'.active = proc.active /\ proc'.env \in Subprocesses \cup {NoTracer}
      BY <1>2, <2>1 DEF SameActive, SameMarks
    <2>9. QED
      BY <2>1, <2>3, <2>4, <2>5, <2>6, <2>7, <2>8, CallOrders
  <1>6. CASE AfterForkInChild(t)
    <2>1. /\ CallStep(t, "inChild", "idle") /\ SelfIs(t, proc.at[t])
          /\ SameSelf /\ SameActive /\ SameMarks /\ SameOwner
          /\ proc'.hand = proc.hand /\ proc'.hooks = proc.hooks
      BY <1>1, <1>6, AfterForkInChildDoes
    <2>2. \A u \in Threads \ {t} : proc'.at[u] = proc.at[u] /\ proc'.hand[u] = proc.hand[u]
      BY <1>1, <2>1, ProcessFields DEF SelfIs
    <2>3. Len(made) <= Len(made')
      <3>1. made' = made \/ (proc.active \in Tracers /\ made' = Append(made, proc.active))
        BY <1>1, <1>6, AfterForkInChildDoes, TracerAssumption
      <3>2. QED
        BY <1>1, <3>1
    <2>4. \A x \in Tracers : ~Free(x) => proc'.slot[x] = proc.slot[x]
      <3>1. \A x \in Tracers : x # proc.active => proc'.slot[x] = proc.slot[x]
        BY <1>1, <1>6, AfterForkInChildDoes, ProcessFields
      <3>2. proc.active \in Tracers => Free(proc.active)
        BY <1>6, TracerAssumption DEF AfterForkInChild, ActiveFree
      <3>3. QED
        BY <3>1, <3>2
    <2>5. proc'.hand[t] = 0 /\ proc'.hooks
      BY <2>1 DEF Ordered, HandsEmpty, Hooked, CallStep
    <2>6. proc'.active = proc.active /\ proc'.env \in Subprocesses \cup {NoTracer}
      BY <1>2, <2>1 DEF SameActive, SameMarks
    <2>7. \A x \in Tracers : proc'.owner[x] = proc.owner[x]
      BY <2>1 DEF SameOwner
    <2>8. QED
      BY <2>1, <2>2, <2>3, <2>4, <2>5, <2>6, <2>7, CallOrders
  <1>7. CASE Fork(t)
    <2>1. /\ proc'.main = t /\ proc'.handler = "none" /\ proc'.dying = 0 /\ proc'.signalled = 0
          /\ proc'.pc = [u \in Threads |-> IF u # t THEN "gone" ELSE IF proc.hooks THEN "inChild" ELSE "idle"]
          /\ proc'.hand = [u \in Threads |-> 0] /\ proc'.slot = proc.slot /\ SameTool /\ SameMarks
          /\ inherited' = Len(made) /\ made' = made /\ proc'.status = proc.status /\ proc.status = "alive"
      BY <1>1, <1>7, ForkDoes DEF Runs
    <2>2. \A u \in Threads : proc'.pc[u] \in {"gone", "idle", "inChild"} /\ proc'.hand[u] = 0
      BY <2>1
    <2>3. GilHeld' /\ RunningHeld' /\ HandsEmpty'
      BY <2>1, <2>2 DEF GilHeld, RunningHeld, HandsEmpty
    <2>4. HandlerBusy'
      BY <1>1, <2>1 DEF HandlerBusy
    <2>5. Hooked'
      BY <2>1, <2>2 DEF Ordered, Hooked, SameTool
    <2>6. ChildAlone'
      BY <2>1 DEF ChildAlone, Others
    <2>7. EnvKnown'
      BY <1>2, <2>1 DEF EnvKnown, SameMarks
    <2>8. QED
      BY <2>3, <2>4, <2>5, <2>6, <2>7 DEF Ordered
  <1>8. CASE Spawn(t)
    <2>1. proc.env # NoTracer /\ proc' = Fresh(t, proc.env) /\ made' = made
      BY <1>1, <1>8, SpawnDoes
    <2>2. /\ proc'.pc = [u \in Threads |-> IF u # t THEN "gone" ELSE "begin"]
          /\ proc'.hand = [u \in Threads |-> 0] /\ proc'.slot = [tr \in Tracers |-> 0]
          /\ proc'.status = "alive" /\ proc'.main = t /\ proc'.handler = "none"
          /\ proc'.dying = 0 /\ proc'.signalled = 0 /\ proc'.tool = 0 /\ proc'.env = proc.env
      BY <2>1, FreshHas
    <2>3. \A u \in Threads : proc'.pc[u] \in {"gone", "begin"} /\ proc'.hand[u] = 0
      BY <2>2
    <2>4. GilHeld' /\ RunningHeld' /\ HandsEmpty' /\ ChildAlone'
      BY <2>2, <2>3 DEF GilHeld, RunningHeld, HandsEmpty, ChildAlone
    <2>5. HandlerBusy'
      BY <1>1, <2>1, <2>2 DEF HandlerBusy
    <2>6. Hooked' /\ EnvKnown'
      BY <1>2, <2>2, <2>3 DEF Hooked, EnvKnown
    <2>7. QED
      BY <2>4, <2>5, <2>6 DEF Ordered
  <1>9. QED
    BY <1>3, <1>4, <1>5, <1>6, <1>7, <1>8 DEF Forks

\* A step of the handler, in terms of what Ordered is about.
LEMMA HandlerOrders ==
  ASSUME IInv, IInv', Ordered, SameCalls, proc'.main = proc.main, proc'.hand = proc.hand,
         proc'.hooks = proc.hooks, proc'.env = proc.env, UNCHANGED <<made, inherited>>,
         GilHeld', HandlerBusy', proc'.handler \notin {"flush", "join"} => proc'.dying = 0,
         ~proc.hooks => proc'.tool = 0,
         \A x \in Tracers : proc'.slot[x] \in {0, proc.slot[x]},
         \A x \in Tracers : proc.owner[x] \in Threads =>
             proc'.owner[x] = proc.owner[x] \/ \A u \in Threads : proc.pc[u] \in Finishing => proc.at[u] # x
  PROVE  Ordered'
  <1>1. Discipline
    BY DEF IInv
  <1>2. Hooked' /\ ChildAlone' /\ HandsEmpty' /\ EnvKnown'
    BY DEF Ordered, Hooked, ChildAlone, HandsEmpty, EnvKnown, SameCalls, Others
  <1>3. RunningHeld'
    <2> SUFFICES ASSUME NEW u \in Threads, proc.pc[u] \in Finishing
                 PROVE  proc'.owner[proc.at[u]] = u /\ proc'.slot[proc.at[u]] = 0
      BY DEF RunningHeld, SameCalls
    <2>1. proc.at[u] \in Tracers
      BY <1>1 DEF Discipline, SelfInCall, InCall, Steps, Finishing
    <2>2. proc.owner[proc.at[u]] = u /\ proc.slot[proc.at[u]] = 0
      BY DEF Ordered, RunningHeld
    <2>3. QED
      BY <2>1, <2>2
  <1>4. QED
    BY <1>2, <1>3 DEF Ordered

\* A step that neither a call nor the handler takes.
LEMMA IdlyOrders ==
  ASSUME IInv, IInv', Ordered, SameCalls, SameTracing, SameMarks, SameSaved,
         SameGil \/ proc.gil = NoOne,
         \A l \in Locks : proc'.owner[l] = proc.owner[l] \/ l = "RECORDERS"
  PROVE  Ordered'
  <1> USE LocksDiffer, ProcessFields DEF SameTracing, SameSelf
  <1>1. proc \in Process /\ proc' \in Process
    BY DEF IInv, TypeOK
  <1>2. \A x \in Tracers : proc'.owner[x] = proc.owner[x]
    BY <1>1
  <1>3. GilHeld'
    <2>1. proc.gil = NoOne => \A u \in Threads : proc.pc[u] \notin KeepsGil
      BY <1>1, NobodyGoesOn DEF Ordered
    <2>2. QED
      BY <2>1 DEF Ordered, GilHeld, SameGil, SameCalls
  <1>4. HandlerBusy'
    <2>1. proc'.handler \in {"flush", "join"} =>
            proc'.active \in Tracers /\ proc'.owner[proc'.active] = proc'.main
      BY <1>2 DEF Ordered, HandlerBusy, SameActive
    <2>2. proc'.handler = "ending" => proc'.saved = "default" /\ proc'.owner["REPLACED_HANDLERS"] = NoOne
      BY <1>1 DEF Ordered, HandlerBusy, SameSaved, Free
    <2>3. QED
      BY <2>1, <2>2 DEF Ordered, HandlerBusy, SameCalls, history, Free
  <1>5. proc'.handler \notin {"flush", "join"} => proc'.dying = 0
    BY DEF Ordered, HandsEmpty
  <1>6. ~proc.hooks => proc'.tool = 0
    BY DEF Ordered, Hooked, SameTool
  <1>7. QED
    BY <1>2, <1>3, <1>4, <1>5, <1>6, HandlerOrders DEF SameRuns, SameTool, SameMarks, history

\* A step of the handler that leaves every run where it is.
LEMMA HandlerGoesOn ==
  ASSUME IInv, IInv', Ordered, NEW from \in {"asked", "ending", "flush", "raise"}, NEW to, HandlerStep(from, to),
         SameRuns, SameTool, SameActive, SameOwner, proc'.dying = proc.dying, UNCHANGED history,
         proc'.status = "dead" => to = "raise",
         to \in {"ending", "flush", "join", "raise"} =>
             proc.pc[proc.main] \notin Starting \cup Finishing \cup {"publish"},
         to = "ending" => proc.saved = "default" /\ Free("REPLACED_HANDLERS"),
         to \in {"flush", "join"} <=> from = "flush"
  PROVE  Ordered'
  <1> USE LocksDiffer, ProcessFields DEF HandlerStep
  <1>1. proc \in Process
    BY DEF IInv, TypeOK
  <1>2. GilHeld'
    BY <1>1, NobodyGoesOn DEF Ordered, GilHeld, SameCalls
  <1>3. HandlerBusy'
    <2>1. to \in {"flush", "join"} => proc'.active \in Tracers /\ proc'.owner[proc'.active] = proc'.main
      BY DEF Ordered, HandlerBusy, SameActive, SameOwner
    <2>2. to = "ending" => proc'.saved = "default" /\ proc'.owner["REPLACED_HANDLERS"] = NoOne
      BY DEF SameSaved, SameOwner, Free
    <2>3. QED
      BY <2>1, <2>2 DEF Ordered, HandlerBusy, SameCalls, history, Free
  <1>4. proc'.handler \notin {"flush", "join"} => proc'.dying = 0
    BY DEF Ordered, HandsEmpty
  <1>5. ~proc.hooks => proc'.tool = 0
    BY DEF Ordered, Hooked, SameTool
  <1>6. QED
    BY <1>2, <1>3, <1>4, <1>5, HandlerOrders DEF SameRuns, SameTool, SameMarks, SameOwner, history

LEMMA SignalsOrdered ==
  ASSUME IInv, IInv', Ordered, Signals
  PROVE  Ordered'
  <1> USE LocksDiffer, ProcessFields
  <1>1. proc \in Process /\ proc' \in Process /\ Discipline /\ Len(made) \in Nat
    BY DEF IInv, TypeOK
  <1>2. CASE UserHandles
    BY <1>1, <1>2, UserHandlesDoes, IdlyOrders DEF SameOwner
  <1>3. CASE Deliver
    <2>1. /\ SameCalls /\ SameRuns /\ SameTool /\ SameActive /\ SameOwner /\ SameSaved
          /\ proc'.status = "alive" /\ proc'.main = proc.main /\ proc'.dying = proc.dying
          /\ proc'.env = proc.env /\ proc.gil = NoOne /\ proc.handler = "none" /\ proc.pc[proc.main] # "join"
          /\ proc'.signalled = Len(made) /\ proc'.handler = "asked" /\ UNCHANGED history
      BY <1>1, <1>3, DeliverDoes
    <2>2. GilHeld'
      BY <1>1, <2>1, NobodyGoesOn DEF Ordered, GilHeld, SameCalls
    <2>3. HandlerBusy'
      BY <1>1, <2>1 DEF HandlerBusy, SameCalls, history
    <2>4. proc'.dying = 0 /\ (~proc.hooks => proc'.tool = 0)
      BY <2>1 DEF Ordered, HandsEmpty, Hooked, SameTool
    <2>5. QED
      BY <2>1, <2>2, <2>3, <2>4, HandlerOrders DEF SameRuns, SameTool, SameOwner, history
  <1>4. CASE LookUp
    <2>1. /\ SameRuns /\ SameTool /\ SameActive /\ SameOwner /\ UNCHANGED history
          /\ proc'.status = proc.status /\ proc'.dying = proc.dying /\ Free("REPLACED_HANDLERS")
      BY <1>1, <1>4, LookUpDoes
    <2>2. proc'.status = "alive"
      BY <1>1, <1>4, LookUpDoes DEF HandlerStep
    <2>3. CASE HandlerStep("asked", "ending") /\ proc.saved = "default"
      <3>1. proc.pc[proc.main] \notin KeepsGil
        BY <1>1, <2>3, NobodyGoesOn DEF Ordered, HandlerStep
      <3>2. proc.pc[proc.main] \notin HandlersHeld
        BY <1>1, <2>1 DEF Discipline, Holders, Free
      <3>3. proc.pc[proc.main] \notin {"flush", "join"}
        BY <1>1, <2>3, NobodyFlushes DEF Ordered, HandlerBusy, HandlerStep
      <3>4. proc.pc[proc.main] \notin Starting \cup Finishing \cup {"publish"}
        BY <3>1, <3>2, <3>3 DEF KeepsGil, HandlersHeld, Starting, Finishing
      <3>5. QED
        BY <2>1, <2>2, <2>3, <3>4, HandlerGoesOn
    <2>4. CASE HandlerStep("asked", "none")
      BY <2>1, <2>2, <2>4, HandlerGoesOn
    <2>5. QED
      BY <1>1, <1>4, <2>3, <2>4, LookUpDoes
  <1>5. CASE EndActive
    <2>1. /\ proc'.status = proc.status /\ proc'.hand = proc.hand /\ SameActive /\ proc'.hooks = proc.hooks
          /\ UNCHANGED history
      BY <1>1, <1>5, EndActiveDoes
    <2>2. proc.handler = "ending" /\ proc.pc[proc.main] \notin Starting \cup Finishing \cup {"publish"}
      BY <1>1, <1>5, EndActiveDoes DEF Ordered, HandlerBusy, HandlerStep
    <2>3. CASE HandlerStep("ending", "flush") /\ Ends
      <3>1. /\ proc.active \in Tracers /\ Free(proc.active) /\ proc.slot[proc.active] # 0
            /\ proc'.owner = [proc.owner EXCEPT !["ACTIVE"] = proc.main, ![proc.active] = proc.main]
            /\ proc'.slot = [proc.slot EXCEPT ![proc.active] = 0]
        BY <1>1, <2>3 DEF Ends, ActiveFree, ActiveRuns
      <3>2. proc.hooks
        BY <3>1 DEF Ordered, Hooked
      <3>3. /\ \A x \in Tracers : proc'.slot[x] \in {0, proc.slot[x]}
            /\ \A x \in Tracers : proc.owner[x] \in Threads => proc'.owner[x] = proc.owner[x]
            /\ proc'.owner[proc.active] = proc.main
        BY <1>1, <3>1 DEF Free
      <3>4. GilHeld'
        BY <1>1, <2>3, NobodyGoesOn DEF Ordered, GilHeld, SameCalls, HandlerStep
      <3>5. HandlerBusy'
        BY <2>1, <2>2, <2>3, <3>1, <3>3 DEF Ordered, HandlerBusy, SameCalls, SameActive, HandlerStep, history,
                                            Starting, Finishing
      <3>6. QED
        BY <2>1, <2>3, <3>2, <3>3, <3>4, <3>5, HandlerOrders DEF HandlerStep, SameMarks, history
    <2>4. CASE /\ HandlerStep("ending", "raise") /\ SameRuns /\ SameTool /\ SameOwner
               /\ proc'.dying = proc.dying
      BY <2>1, <2>2, <2>4, HandlerGoesOn
    <2>5. QED
      BY <1>1, <1>5, <2>3, <2>4, EndActiveDoes
  <1>6. CASE HandlerFlush
    <2>1. /\ HandlerStep("flush", "join") /\ SameRuns /\ SameTool /\ SameActive /\ SameOwner
          /\ proc'.status = proc.status /\ proc'.dying = proc.dying /\ UNCHANGED history
      BY <1>1, <1>6, HandlerFlushDoes
    <2>2. proc'.status # "dead" /\ proc.pc[proc.main] \notin Starting \cup Finishing \cup {"publish"}
      BY <2>1 DEF Ordered, HandlerBusy, HandlerStep
    <2>3. QED
      BY <2>1, <2>2, HandlerGoesOn
  <1>7. CASE HandlerJoin
    <2>1. /\ HandlerStep("join", "raise") /\ SameRuns /\ SameTool /\ SameActive
          /\ proc'.status = proc.status /\ proc'.dying = 0
          /\ proc'.owner = [proc.owner EXCEPT !["ACTIVE"] = NoOne, ![proc.active] = NoOne]
          /\ UNCHANGED <<made, inherited>>
      BY <1>1, <1>7, HandlerJoinDoes
    <2>2. /\ proc.active \in Tracers /\ proc.owner[proc.active] = proc.main
          /\ proc.pc[proc.main] \notin Starting \cup Finishing \cup {"publish"}
      BY <2>1 DEF Ordered, HandlerBusy, HandlerStep
    <2>3. GilHeld'
      BY <1>1, <2>1, NobodyGoesOn DEF Ordered, GilHeld, SameCalls, HandlerStep
    <2>4. HandlerBusy'
      BY <2>1, <2>2 DEF Ordered, HandlerBusy, SameCalls, HandlerStep
    <2>5. ASSUME NEW u \in Threads, proc.pc[u] \in Finishing PROVE proc.at[u] # proc.active
      BY <2>2, <2>5 DEF Ordered, RunningHeld
    <2>6. \A x \in Tracers : x # proc.active => proc'.owner[x] = proc.owner[x]
      BY <1>1, <2>1
    <2>7. ~proc.hooks => proc'.tool = 0
      BY <2>1 DEF Ordered, Hooked, SameTool
    <2>8. QED
      BY <2>1, <2>3, <2>4, <2>5, <2>6, <2>7, HandlerOrders DEF HandlerStep, SameRuns, SameTool, SameMarks
  <1>8. CASE Raise
    <2>1. /\ HandlerStep("raise", "raise") /\ SameRuns /\ SameTool /\ SameActive /\ SameOwner
          /\ proc'.dying = proc.dying /\ UNCHANGED history
      BY <1>1, <1>8, RaiseDoes
    <2>2. proc.pc[proc.main] \notin Starting \cup Finishing \cup {"publish"}
      BY <2>1 DEF Ordered, HandlerBusy, HandlerStep
    <2>3. QED
      BY <2>1, <2>2, HandlerGoesOn
  <1>9. CASE Killed
    <2>1. /\ SameCalls /\ SameRuns /\ SameTool /\ SameActive /\ SameMarks /\ SameGil /\ SameOwner /\ SameSaved
          /\ proc'.main = proc.main /\ proc'.dying = proc.dying
          /\ proc.handler = "none" /\ proc'.handler = "none"
          /\ proc'.signalled = Len(made) /\ UNCHANGED history
      BY <1>1, <1>9, KilledDoes
    <2>2. GilHeld'
      BY <2>1 DEF Ordered, GilHeld, SameCalls, SameGil
    <2>3. HandlerBusy'
      BY <1>1, <2>1 DEF HandlerBusy, history
    <2>4. proc'.dying = 0 /\ (~proc.hooks => proc'.tool = 0)
      BY <2>1 DEF Ordered, HandsEmpty, Hooked, SameTool
    <2>5. QED
      BY <2>1, <2>2, <2>3, <2>4, HandlerOrders DEF SameRuns, SameTool, SameMarks, SameOwner, history
  <1>10. QED
    BY <1>2, <1>3, <1>4, <1>5, <1>6, <1>7, <1>8, <1>9 DEF Signals

LEMMA InitOrdered == Init => Ordered
  <1> SUFFICES ASSUME Init PROVE Ordered
    OBVIOUS
  <1>1. PICK t \in Threads, d \in {"default", "user", "ignored"} :
          proc = [Fresh(t, NoTracer) EXCEPT !.pc = [u \in Threads |-> "idle"], !.disp = d]
    BY DEF Init
  <1>2. /\ proc.pc = [u \in Threads |-> "idle"] /\ proc.hand = [u \in Threads |-> 0]
        /\ proc.slot = [tr \in Tracers |-> 0] /\ proc.status = "alive" /\ proc.handler = "none"
        /\ proc.dying = 0 /\ proc.signalled = 0 /\ proc.tool = 0 /\ proc.env = NoTracer
    BY <1>1 DEF Fresh
  <1>3. made = <<>>
    BY DEF Init
  <1>4. GilHeld /\ RunningHeld /\ HandsEmpty /\ ChildAlone /\ Hooked /\ EnvKnown
    BY <1>2 DEF GilHeld, RunningHeld, HandsEmpty, ChildAlone, Hooked, EnvKnown, KeepsGil, Finishing
  <1>5. HandlerBusy
    BY <1>2, <1>3 DEF HandlerBusy
  <1>6. QED
    BY <1>4, <1>5 DEF Ordered

LEMMA NextOrders ==
  ASSUME IInv, IInv', Ordered, [Next]_vars
  PROVE  Ordered'
  <1>1. proc \in Process
    BY DEF IInv, TypeOK
  <1>2. CASE UNCHANGED vars
    BY <1>2 DEF vars, Ordered, GilHeld, HandlerBusy, Hooked, ChildAlone, HandsEmpty, RunningHeld, EnvKnown, Others,
                Free
  <1>3. ASSUME NEW t \in Threads, (\E tr \in Tracers : CallUse(t, tr)) \/ Use(t) PROVE Ordered'
    <2>1. PICK from \in {"idle", "use"}, to \in {"idle", "use"} : CallStep(t, from, to)
      BY <1>1, <1>3, CallUseDoes, UseDoes
    <2>2. PICK self \in Tracers \cup {NoTracer} : SelfIs(t, self)
      BY <1>1, <1>3, CallUseDoes, UseDoes
    <2>3. SameTracing /\ SameMarks /\ SameOwner
      BY <1>1, <1>3, CallUseDoes, UseDoes
    <2>4. proc'.env \in Subprocesses \cup {NoTracer} /\ \A x \in Tracers : proc'.owner[x] = proc.owner[x]
      BY <2>3 DEF Ordered, EnvKnown, SameMarks, SameOwner
    <2>5. QED
      BY <2>1, <2>2, <2>3, <2>4, QuietOrders DEF Steps, Starting, Finishing, KeepsGil
  <1>4. ASSUME NEW t \in Threads, Waits(t) PROVE Ordered'
    BY <1>1, <1>4, WaitsDoes, IdlyOrders DEF SameOwner
  <1>5. ASSUME NEW r \in DOMAIN made, ReadTails(r) \/ ReadTailsEnd(r) PROVE Ordered'
    <2>1. SameCalls /\ SameTracing /\ SameMarks /\ SameGil /\ SameSaved
      BY <1>1, <1>5, ReadTailsDoes
    <2>2. \A l \in Locks : proc'.owner[l] = proc.owner[l] \/ l = "RECORDERS"
      BY <1>1, <1>5, ReadTailsDoes, ProcessFields
    <2>3. QED
      BY <2>1, <2>2, IdlyOrders
  <1>6. QED
    BY <1>2, <1>3, <1>4, <1>5, EntersOrdered, LeavesOrdered, ForksOrdered, SignalsOrdered DEF Next

LEMMA AlwaysOrdered == Spec => []Ordered
  <1>1. IInv /\ IInv' /\ Ordered /\ [Next]_vars => Ordered'
    BY NextOrders
  <1>2. QED
    BY <1>1, InitOrdered, Invariant, PTL DEF Spec

---------------------------------------------------------------------------
(* The environment names the active tracer.                                 *)

\* No part of entering or leaving.
Apart == Bystanders \cup Forkers \cup {"inChild"}

OneCall == \A t, u \in Threads : t # u /\ proc.pc[t] \notin Apart => proc.pc[u] \in Apart

\* How far the call under way has brought the environment and ACTIVE.
Tells(t) ==
    /\ proc.pc[t] \in Starting \cup {"begin", "publish"} => proc.env = Advertised(proc.at[t])
    /\ proc.pc[t] \in Cleared \cup Finishing => proc.active = NoTracer
    /\ proc.pc[t] \in {"take"} \cup Finishing => proc.env = NoTracer

Advertises ==
    ~proc.overlap /\ ~proc.failed /\ ~proc.crossed =>
        /\ OneCall
        /\ \A t \in Threads : Tells(t)
        /\ (\A t \in Threads : proc.pc[t] \in Apart) => proc.env = Advertised(proc.active)

LEMMA NothingAdvertised == Advertised(NoTracer) = NoTracer
  BY TracerAssumption DEF Advertised

\* A step within entering or leaving.
LEMMA CallAdvertises ==
  ASSUME proc \in Process, Advertises, NEW t \in Threads, NEW from \in Steps \ Apart, NEW to \in Steps,
         CallStep(t, from, to), proc.overlap => proc'.overlap, proc.failed => proc'.failed,
         proc.crossed => proc'.crossed,
         OneCall /\ Tells(t) /\ ~proc'.failed => Tells(t)' /\ (to \in Apart => proc'.env = Advertised(proc'.active))
  PROVE  Advertises'
  <1> USE ProcessFields DEF CallStep
  <1> SUFFICES ASSUME ~proc'.overlap, ~proc'.failed, ~proc'.crossed
               PROVE  /\ OneCall' /\ \A u \in Threads : Tells(u)'
                      /\ (\A u \in Threads : proc'.pc[u] \in Apart) => proc'.env = Advertised(proc.active)'
    BY DEF Advertises
  <1>1. OneCall /\ Tells(t)
    BY DEF Advertises
  <1>2. Tells(t)' /\ (to \in Apart => proc'.env = Advertised(proc'.active))
    BY <1>1
  <1>3. \A u \in Threads \ {t} : proc'.pc[u] \in Apart
    BY <1>1 DEF OneCall
  <1>4. \A u \in Threads \ {t} : Tells(u)'
    BY <1>3 DEF Tells, Apart, Bystanders, Forkers, Starting, Cleared, Finishing
  <1>5. OneCall'
    BY <1>3 DEF OneCall
  <1>6. proc'.pc[t] = to
    OBVIOUS
  <1>7. QED
    BY <1>2, <1>4, <1>5, <1>6

\* A step that is no part of entering or leaving.
LEMMA ApartAdvertises ==
  ASSUME proc \in Process, Advertises, NEW t \in Threads, NEW from \in Apart, NEW to \in Apart,
         CallStep(t, from, to), \A u \in Threads \ {t} : proc'.at[u] = proc.at[u],
         proc'.active = proc.active, proc'.env = proc.env, proc.overlap => proc'.overlap,
         proc.failed => proc'.failed, proc.crossed => proc'.crossed
  PROVE  Advertises'
  <1> USE ProcessFields DEF CallStep
  <1> SUFFICES ASSUME ~proc'.overlap, ~proc'.failed, ~proc'.crossed
               PROVE  /\ OneCall' /\ \A u \in Threads : Tells(u)'
                      /\ (\A u \in Threads : proc'.pc[u] \in Apart) => proc'.env = Advertised(proc.active)'
    BY DEF Advertises
  <1>1. OneCall /\ \A u \in Threads : Tells(u)
    BY DEF Advertises
  <1>2. \A u \in Threads : proc'.pc[u] \in Apart <=> proc.pc[u] \in Apart
    OBVIOUS
  <1>3. OneCall'
    BY <1>1, <1>2 DEF OneCall
  <1>4. \A u \in Threads \ {t} : Tells(u)'
    BY <1>1 DEF Tells, Advertised
  <1>5. Tells(t)'
    BY DEF Tells, Apart, Bystanders, Forkers, Starting, Cleared, Finishing
  <1>6. (\A u \in Threads : proc'.pc[u] \in Apart) => proc'.env = Advertised(proc.active)'
    BY <1>2 DEF Advertises, Advertised
  <1>7. QED
    BY <1>3, <1>4, <1>5, <1>6

\* Entering or leaving begins while nobody else does either.
LEMMA CallsAdvertise ==
  ASSUME proc \in Process, Advertises, NEW t \in Threads, NEW to \in {"begin", "clear"}, NEW self,
         CallStep(t, "idle", to), SelfIs(t, self), proc.overlap => proc'.overlap, proc'.failed = proc.failed,
         proc'.crossed = (proc.crossed \/ Crosses(t)), to = "begin" => proc'.env = Advertised(self)
  PROVE  Advertises'
  <1> USE ProcessFields DEF CallStep, SelfIs
  <1> SUFFICES ASSUME ~proc'.overlap, ~proc'.failed, ~proc'.crossed
               PROVE  /\ OneCall' /\ \A u \in Threads : Tells(u)'
                      /\ ~\A u \in Threads : proc'.pc[u] \in Apart
    BY DEF Advertises
  <1>1. \A u \in Threads \ {t} : proc'.pc[u] \in Apart
    <2>1. ~Crosses(t)
      OBVIOUS
    <2>2. \A u \in Threads \ {t} : proc.pc[u] \in Apart
      BY <2>1 DEF Crosses, Apart, Bystanders, Forkers
    <2>3. QED
      BY <2>2
  <1>2. proc'.pc[t] = to /\ proc'.at[t] = self
    OBVIOUS
  <1>3. OneCall'
    BY <1>1 DEF OneCall
  <1>4. \A u \in Threads \ {t} : Tells(u)'
    BY <1>1 DEF Tells, Apart, Bystanders, Forkers, Starting, Cleared, Finishing
  <1>5. Tells(t)'
    BY <1>2 DEF Tells, Starting, Cleared, Finishing, Advertised
  <1>6. to \notin Apart
    BY DEF Apart, Bystanders, Forkers
  <1>7. QED
    BY <1>2, <1>3, <1>4, <1>5, <1>6
\* Nobody's place in a call changes.
LEMMA IdlyAdvertises ==
  ASSUME Advertises, SameCalls, proc'.active = proc.active, proc'.env = proc.env, proc.overlap => proc'.overlap,
         proc'.failed = proc.failed, proc'.crossed = proc.crossed
  PROVE  Advertises'
  BY DEF Advertises, OneCall, Tells, Advertised, SameCalls

LEMMA EntersAdvertise ==
  ASSUME IInv, Ordered, Advertises, NEW t \in Threads, Enters(t)
  PROVE  Advertises'
  <1> USE DEF Steps, Starting, Cleared, Finishing
  <1> DEFINE within == Steps \ Apart
  <1>1. proc \in Process
    BY DEF IInv, TypeOK
  <1>2. /\ {"begin", "publish"} \cup Starting \subseteq within
        /\ "idle" \in Apart /\ "idle" \in Steps
    BY DEF Apart, Bystanders, Forkers
  <1>3. ASSUME NEW tr \in Tracers, CallEnter(t, tr) PROVE Advertises'
    BY <1>1, <1>3, CallEnterDoes, CallsAdvertise
  <1>4. ASSUME NEW from \in within, NEW to \in within, CallStep(t, from, to), SelfIs(t, proc.at[t]), SameMarks,
               from \in Starting \cup {"begin"}, to \in Starting \cup {"publish"}
        PROVE  Advertises'
    <2>1. proc'.pc[t] = to /\ proc'.at[t] = proc.at[t] /\ proc.pc[t] = from
      BY <1>1, <1>4, ProcessFields DEF CallStep, SelfIs
    <2>2. Tells(t) => Tells(t)'
      BY <1>4, <2>1 DEF Tells, SameMarks, Advertised
    <2>3. QED
      BY <1>1, <1>4, <2>2, CallAdvertises DEF SameMarks
  <1>5. CASE Begin(t)
    BY <1>1, <1>2, <1>4, <1>5, BeginDoes
  <1>6. CASE BeginFails(t)
    <2>1. /\ CallStep(t, "begin", "idle") /\ proc'.failed = TRUE
          /\ proc'.crossed = proc.crossed /\ proc'.overlap = proc.overlap
      BY <1>1, <1>6, BeginFailsDoes
    <2>2. QED
      BY <1>1, <1>2, <2>1, CallAdvertises
  <1>7. CASE LockHandlers(t)
    BY <1>1, <1>2, <1>4, <1>7, LockHandlersDoes
  <1>8. CASE TakeOver(t)
    BY <1>1, <1>2, <1>4, <1>8, TakeOverDoes
  <1>9. CASE LeaveHandlers(t)
    BY <1>1, <1>2, <1>4, <1>9, LeaveHandlersDoes
  <1>10. CASE KeepPrevious(t)
    BY <1>1, <1>2, <1>4, <1>10, KeepPreviousDoes
  <1>11. CASE Install(t)
    BY <1>1, <1>2, <1>4, <1>11, InstallDoes
  <1>12. CASE Publish(t)
    <2>1. /\ CallStep(t, "publish", "idle") /\ SelfIs(t, NoTracer) /\ SameMarks
          /\ proc'.active = proc.at[t]
      BY <1>1, <1>12, PublishDoes
    <2>2. proc'.pc[t] = "idle" /\ proc.pc[t] = "publish"
      BY <1>1, <2>1, ProcessFields DEF CallStep
    <2>3. Tells(t) => Tells(t)' /\ proc'.env = Advertised(proc'.active)
      BY <2>1, <2>2 DEF Tells, SameMarks, Advertised
    <2>4. QED
      BY <1>1, <1>2, <2>1, <2>3, CallAdvertises DEF SameMarks
  <1>13. QED
    BY <1>3, <1>5, <1>6, <1>7, <1>8, <1>9, <1>10, <1>11, <1>12 DEF Enters

LEMMA LeavesAdvertise ==
  ASSUME IInv, Ordered, Advertises, NEW t \in Threads, Leaves(t)
  PROVE  Advertises'
  <1> USE DEF Steps, Starting, Cleared, Finishing
  <1> DEFINE within == Steps \ Apart
  <1>1. proc \in Process
    BY DEF IInv, TypeOK
  <1>2. /\ {"clear"} \cup Cleared \cup Finishing \subseteq within
        /\ "idle" \in Apart /\ "idle" \in Steps
    BY DEF Apart, Bystanders, Forkers
  <1>3. CASE CallExit(t)
    <2>1. /\ CallStep(t, "idle", "clear") /\ SelfIs(t, proc.entered[Len(proc.entered)])
          /\ proc'.failed = proc.failed
          /\ proc'.crossed = (proc.crossed \/ Crosses(t)) /\ proc'.overlap = (proc.overlap \/ Forking(t))
      BY <1>1, <1>3, CallExitDoes
    <2>2. QED
      BY <1>1, <2>1, CallsAdvertise
  \* Once ACTIVE is empty, and once the environment is.
  <1>4. ASSUME NEW from \in within, NEW to \in within \cup {"idle"}, CallStep(t, from, to),
               proc'.overlap = proc.overlap, proc'.failed = proc.failed, proc'.crossed = proc.crossed,
               to \in {"idle"} \cup Cleared \cup Finishing,
               proc'.active = NoTracer \/ (from \in Cleared \cup Finishing /\ proc'.active = proc.active),
               to \in {"idle", "take"} \cup Finishing =>
                   proc'.env = NoTracer \/ (from \in {"take"} \cup Finishing /\ proc'.env = proc.env)
        PROVE  Advertises'
    <2>1. proc'.pc[t] = to /\ proc.pc[t] = from
      BY <1>1, <1>4, ProcessFields DEF CallStep
    <2>2. Tells(t) => Tells(t)' /\ (to \in Apart => proc'.env = Advertised(proc'.active))
      BY <1>2, <1>4, <2>1, NothingAdvertised DEF Tells
    <2>3. QED
      BY <1>1, <1>2, <1>4, <2>2, CallAdvertises
  <1>5. CASE Clear(t)
    BY <1>1, <1>2, <1>4, <1>5, ClearDoes DEF SameMarks
  <1>6. CASE LockToHandBack(t)
    <2>1. PICK to \in {"stop", "handing"} : CallStep(t, "handBack", to)
      BY <1>1, <1>6, LockToHandBackDoes
    <2>2. proc'.active = proc.active /\ SameMarks
      BY <1>1, <1>6, LockToHandBackDoes DEF SameTracing, SameActive
    <2>3. QED
      BY <1>2, <1>4, <2>1, <2>2 DEF SameMarks
  <1>7. CASE HandBack(t)
    <2>1. CallStep(t, "handing", "stop") /\ proc'.active = proc.active /\ SameMarks
      BY <1>1, <1>7, HandBackDoes DEF SameTracing, SameActive
    <2>2. QED
      BY <1>2, <1>4, <2>1 DEF SameMarks
  <1>8. CASE StopAdvertising(t)
    <2>1. /\ CallStep(t, "stop", "take") /\ proc'.active = proc.active /\ proc'.env = NoTracer
          /\ proc'.overlap = proc.overlap /\ proc'.failed = proc.failed /\ proc'.crossed = proc.crossed
      BY <1>1, <1>8, StopAdvertisingDoes DEF SameTracing, SameActive
    <2>2. QED
      BY <1>2, <1>4, <2>1
  <1>9. CASE Take(t)
    <2>1. proc.at[t] \in Tracers
      BY <1>1, <1>9 DEF Take, At, IInv, Discipline, SelfInCall, InCall
    <2>2. PICK to \in {"idle", "flush"} : CallStep(t, "take", to)
      BY <1>1, <1>9, <2>1, TakeDoes
    <2>3. proc'.active = proc.active /\ SameMarks
      BY <1>1, <1>9, <2>1, TakeDoes DEF SameActive
    <2>4. QED
      BY <1>2, <1>4, <2>2, <2>3 DEF SameMarks
  <1>10. CASE Flush(t)
    <2>1. CallStep(t, "flush", "join") /\ proc'.active = proc.active /\ SameMarks
      BY <1>1, <1>10, FlushDoes DEF SameTracing, SameActive
    <2>2. QED
      BY <1>2, <1>4, <2>1 DEF SameMarks
  <1>11. CASE Join(t)
    <2>1. CallStep(t, "join", "idle") /\ proc'.active = proc.active /\ SameMarks
      BY <1>1, <1>11, JoinDoes DEF SameActive
    <2>2. QED
      BY <1>2, <1>4, <2>1 DEF SameMarks
  <1>12. QED
    BY <1>3, <1>5, <1>6, <1>7, <1>8, <1>9, <1>10, <1>11 DEF Leaves

LEMMA ForksAdvertise ==
  ASSUME IInv, Known, Ordered, Advertises, NEW t \in Threads, Forks(t)
  PROVE  Advertises'
  <1> USE DEF Apart, Bystanders, Forkers
  <1>1. proc \in Process
    BY DEF IInv, TypeOK
  <1>2. ASSUME NEW from \in Apart, NEW to \in Apart, CallStep(t, from, to), SelfIs(t, proc.at[t]), SameActive,
               proc'.env = proc.env, proc'.failed = proc.failed, proc'.crossed = proc.crossed,
               proc.overlap => proc'.overlap
        PROVE  Advertises'
    <2>1. \A u \in Threads \ {t} : proc'.at[u] = proc.at[u]
      BY <1>1, <1>2, ProcessFields DEF SelfIs
    <2>2. QED
      BY <1>1, <1>2, <2>1, ApartAdvertises DEF SameActive
  <1>3. CASE CallFork(t)
    BY <1>1, <1>2, <1>3, CallForkDoes DEF SameTracing
  <1>4. CASE BeforeFork(t)
    BY <1>1, <1>2, <1>4, BeforeForkDoes DEF SameMarks
  <1>5. CASE ForkReturns(t)
    BY <1>1, <1>2, <1>5, ForkReturnsDoes DEF SameMarks, SameTracing
  <1>6. CASE AfterForkInParent(t)
    BY <1>1, <1>2, <1>6, AfterForkInParentDoes DEF SameMarks
  <1>7. CASE AfterForkInChild(t)
    BY <1>1, <1>2, <1>7, AfterForkInChildDoes DEF SameMarks
  <1>8. CASE Fork(t)
    <2>1. /\ proc.pc[t] = "forking" /\ proc'.active = proc.active /\ SameMarks
          /\ \A u \in Threads : proc'.pc[u] \in Apart
      BY <1>1, <1>8, ForkDoes DEF SameActive
    <2>2. OneCall' /\ \A u \in Threads : Tells(u)'
      BY <2>1 DEF OneCall, Tells, Starting, Cleared, Finishing
    <2>3. ~proc.overlap => \A u \in Threads : proc.pc[u] \in Apart
      BY <2>1 DEF Known, ForksAlone
    <2>4. QED
      BY <2>1, <2>2, <2>3 DEF Advertises, SameMarks, Advertised
  <1>9. CASE Spawn(t)
    <2>1. proc.env # NoTracer /\ proc' = Fresh(t, proc.env)
      BY <1>1, <1>9, SpawnDoes
    <2>2. /\ \A u \in Threads \ {t} : proc'.pc[u] = "gone"
          /\ proc'.pc[t] = "begin" /\ proc'.at[t] = proc.env /\ proc'.env = proc.env
      <3>1. /\ proc'.pc = [u \in Threads |-> IF u # t THEN "gone" ELSE "begin"]
            /\ proc'.at = [u \in Threads |-> IF u = t THEN proc.env ELSE NoTracer]
            /\ proc'.env = proc.env
        BY <2>1, FreshHas
      <3>2. QED
        BY <3>1
    <2>3. Advertised(proc.env) = proc.env
      BY <2>1 DEF Ordered, EnvKnown, Advertised
    <2>4. OneCall' /\ \A u \in Threads : Tells(u)'
      BY <2>2, <2>3 DEF OneCall, Tells, Starting, Cleared, Finishing, Advertised
    <2>5. QED
      BY <2>2, <2>4 DEF Advertises
  <1>10. QED
    BY <1>3, <1>4, <1>5, <1>6, <1>7, <1>8, <1>9 DEF Forks

LEMMA NextAdvertises ==
  ASSUME IInv, Known, Ordered, Advertises, [Next]_vars
  PROVE  Advertises'
  <1>1. proc \in Process
    BY DEF IInv, TypeOK
  <1>2. CASE UNCHANGED vars
    BY <1>2 DEF vars, Advertises, OneCall, Tells, Advertised
  <1>3. ASSUME NEW t \in Threads, (\E tr \in Tracers : CallUse(t, tr)) \/ Use(t) PROVE Advertises'
    <2>1. PICK from \in {"idle", "use"}, to \in {"idle", "use"} : CallStep(t, from, to)
      BY <1>1, <1>3, CallUseDoes, UseDoes
    <2>2. PICK self : SelfIs(t, self)
      BY <1>1, <1>3, CallUseDoes, UseDoes
    <2>3. SameTracing /\ SameMarks
      BY <1>1, <1>3, CallUseDoes, UseDoes
    <2>4. \A u \in Threads \ {t} : proc'.at[u] = proc.at[u]
      BY <1>1, <2>2, ProcessFields DEF SelfIs
    <2>5. QED
      BY <1>1, <2>1, <2>3, <2>4, ApartAdvertises DEF SameTracing, SameActive, SameMarks, Apart, Bystanders
  <1>4. ASSUME NEW t \in Threads, Waits(t) PROVE Advertises'
    BY <1>1, <1>4, WaitsDoes, IdlyAdvertises DEF SameTracing, SameActive, SameMarks
  <1>5. ASSUME NEW r \in DOMAIN made, ReadTails(r) \/ ReadTailsEnd(r) PROVE Advertises'
    BY <1>1, <1>5, ReadTailsDoes, IdlyAdvertises DEF SameTracing, SameActive, SameMarks
  <1>6. CASE Signals
    <2>1. CASE UserHandles
      BY <1>1, <2>1, UserHandlesDoes, IdlyAdvertises DEF SameTracing, SameActive, SameMarks
    <2>2. CASE Deliver
      BY <1>1, <2>2, DeliverDoes, IdlyAdvertises DEF SameActive
    <2>3. CASE LookUp
      BY <1>1, <2>3, LookUpDoes, IdlyAdvertises DEF SameActive, SameMarks, HandlerStep
    <2>4. CASE EndActive
      BY <1>1, <2>4, EndActiveDoes, IdlyAdvertises DEF SameActive, SameMarks, HandlerStep
    <2>5. CASE HandlerFlush
      BY <1>1, <2>5, HandlerFlushDoes, IdlyAdvertises DEF SameActive, SameMarks, HandlerStep
    <2>6. CASE HandlerJoin
      BY <1>1, <2>6, HandlerJoinDoes, IdlyAdvertises DEF SameActive, SameMarks, HandlerStep
    <2>7. CASE Raise
      BY <1>1, <2>7, RaiseDoes, IdlyAdvertises DEF SameActive, SameMarks, HandlerStep
    <2>8. CASE Killed
      BY <1>1, <2>8, KilledDoes, IdlyAdvertises DEF SameActive, SameMarks
    <2>9. QED
      BY <1>6, <2>1, <2>2, <2>3, <2>4, <2>5, <2>6, <2>7, <2>8 DEF Signals
  <1>7. QED
    BY <1>2, <1>3, <1>4, <1>5, <1>6, EntersAdvertise, LeavesAdvertise, ForksAdvertise DEF Next

LEMMA InitAdvertises == Init => Advertises
  <1> SUFFICES ASSUME Init PROVE Advertises
    OBVIOUS
  <1>1. PICK t \in Threads, d \in {"default", "user", "ignored"} :
          proc = [Fresh(t, NoTracer) EXCEPT !.pc = [u \in Threads |-> "idle"], !.disp = d]
    BY DEF Init
  <1>2. proc.pc = [u \in Threads |-> "idle"] /\ proc.env = NoTracer /\ proc.active = NoTracer
    BY <1>1 DEF Fresh
  <1>3. QED
    BY <1>2, NothingAdvertised
    DEF Advertises, OneCall, Tells, Apart, Bystanders, Starting, Cleared, Finishing

\* The environment of a process in which nobody is entering or leaving names the
\* active tracer if it traces subprocesses, and nothing otherwise: what a child
\* launched now would profile is what runs here.
THEOREM AdvertisedRuns == Spec => []AdvertisedIsRunning
  <1>1. IInv /\ Known /\ Ordered /\ Advertises /\ [Next]_vars => Advertises'
    BY NextAdvertises
  <1>2. Advertises => AdvertisedIsRunning
    BY DEF Advertises, AdvertisedIsRunning, Quiet, Apart, Bystanders
  <1>3. QED
    BY <1>1, <1>2, InitAdvertises, Invariant, AlwaysKnown, AlwaysOrdered, PTL DEF Spec

---------------------------------------------------------------------------
(* Forks that overlap nothing.                                              *)

\* The handler runs on the main thread: nobody else forks meanwhile.
ForkAlone == \A t \in Threads \ {proc.main} : proc.pc[t] \in Forkers => proc.handler = "none"

\* No fork has left a mutex locked.
NoneVanished == \A l \in Locks \ {"RECORDERS"} : proc.owner[l] \in Threads \cup {NoOne}

Undisturbed == ~proc.overlap => ForkAlone /\ NoneVanished

\* An action that is not Fork has mutexes locked and unlocked by threads.
OwnersThreads ==
    \A l \in Locks \ {"RECORDERS"} : proc'.owner[l] = proc.owner[l] \/ proc'.owner[l] \in Threads \cup {NoOne}

LEMMA CallOwners ==
  ASSUME IInv, NEW t \in Threads, Enters(t) \/ Leaves(t)
  PROVE  OwnersThreads
  <1> USE LocksDiffer, ProcessFields DEF OwnersThreads
  <1>1. proc \in Process
    BY DEF IInv, TypeOK
  <1>2. CASE Enters(t)
    <2>1. SameOwner \/ \E who \in {t, NoOne} : proc'.owner = [proc.owner EXCEPT !["REPLACED_HANDLERS"] = who]
      BY <1>1, <1>2, CallEnterDoes, BeginDoes, BeginFailsDoes, LockHandlersDoes, TakeOverDoes, LeaveHandlersDoes,
         KeepPreviousDoes, InstallDoes, PublishDoes DEF Enters
    <2>2. QED
      BY <1>1, <2>1 DEF SameOwner
  <1>3. CASE Leaves(t)
    <2>1. CASE Take(t) \/ Join(t)
      <3>1. proc.at[t] \in Tracers
        BY <2>1 DEF Take, Join, At, IInv, Discipline, SelfInCall, InCall, Steps
      <3>2. SameOwner \/ \E who \in {t, NoOne} : proc'.owner = [proc.owner EXCEPT ![proc.at[t]] = who]
        BY <1>1, <2>1, <3>1, TakeDoes, JoinDoes
      <3>3. QED
        BY <1>1, <3>2 DEF SameOwner
    <2>2. CASE ~(Take(t) \/ Join(t))
      <3>1. SameOwner \/ \E who \in {t, NoOne} : proc'.owner = [proc.owner EXCEPT !["REPLACED_HANDLERS"] = who]
        BY <1>1, <1>3, <2>2, CallExitDoes, ClearDoes, LockToHandBackDoes, HandBackDoes, StopAdvertisingDoes,
           FlushDoes DEF Leaves
      <3>2. QED
        BY <1>1, <3>1 DEF SameOwner
    <2>3. QED
      BY <2>1, <2>2
  <1>4. QED
    BY <1>2, <1>3

LEMMA OthersOwners ==
  ASSUME IInv, Ordered, NEW t \in Threads,
         \/ \E r \in DOMAIN made : ReadTails(r) \/ ReadTailsEnd(r)
         \/ Signals \/ (Forks(t) /\ ~Fork(t)) \/ Use(t) \/ Waits(t)
         \/ \E tr \in Tracers : CallUse(t, tr)
  PROVE  OwnersThreads
  <1> USE LocksDiffer, ProcessFields DEF OwnersThreads
  <1>1. proc \in Process
    BY DEF IInv, TypeOK
  <1>2. CASE (\E tr \in Tracers : CallUse(t, tr)) \/ Use(t) \/ Waits(t)
    BY <1>1, <1>2, CallUseDoes, UseDoes, WaitsDoes DEF SameOwner
  <1>3. ASSUME NEW r \in DOMAIN made, ReadTails(r) \/ ReadTailsEnd(r) PROVE OwnersThreads
    BY <1>1, <1>3, ReadTailsDoes
  <1>4. CASE Forks(t) /\ ~Fork(t)
    <2>1. CASE Spawn(t)
      <3>1. proc.env # NoTracer /\ proc' = Fresh(t, proc.env)
        BY <1>1, <2>1, SpawnDoes
      <3>2. proc'.owner = [l \in Locks |-> NoOne]
        BY <3>1, FreshHas
      <3>3. QED
        BY <3>2
    <2>2. CASE ~Spawn(t)
      BY <1>1, <1>4, <2>2, CallForkDoes, BeforeForkDoes, ForkReturnsDoes, AfterForkInParentDoes, AfterForkInChildDoes
      DEF Forks, SameOwner
    <2>3. QED
      BY <2>1, <2>2
  <1>5. CASE EndActive
    <2>1. SameOwner \/ (proc.active # NoTracer /\ Ends)
      BY <1>1, <1>5, EndActiveDoes DEF Ends, ActiveRuns
    <2>2. QED
      BY <1>1, <2>1 DEF SameOwner, Ends
  <1>6. CASE HandlerJoin
    BY <1>1, <1>6, HandlerJoinDoes
  <1>7. CASE Signals /\ ~EndActive /\ ~HandlerJoin
    BY <1>1, <1>7, UserHandlesDoes, DeliverDoes, KilledDoes, LookUpDoes, HandlerFlushDoes, RaiseDoes
       DEF Signals, SameOwner
  <1>8. QED
    BY <1>2, <1>3, <1>4, <1>5, <1>6, <1>7

\* Nobody holds a mutex when the process is forked, but an exporter RECORDERS.
LEMMA ForkFree ==
  ASSUME IInv, Known, Undisturbed, ~proc.overlap, NEW t \in Threads, Fork(t)
  PROVE  proc.handler = "none" /\ \A l \in Locks \ {"RECORDERS"} : Free(l)
  <1> USE LocksDiffer, ProcessFields
  <1>1. proc \in Process
    BY DEF IInv, TypeOK
  <1>2. Runs(t) /\ proc.pc[t] = "forking"
    BY <1>1, ForkDoes
  <1>3. proc.handler = "none"
    BY <1>2 DEF Undisturbed, ForkAlone, Forkers, Runs
  <1>4. \A u \in Threads : proc.pc[u] \notin HandlersHeld \cup {"flush", "join"}
    BY <1>2 DEF Known, ForksAlone, Forkers, Bystanders, HandlersHeld
  <1>5. QED
    BY <1>3, <1>4 DEF IInv, Discipline, Owners, Undisturbed, NoneVanished, Free

\* How a step changes who forks and whether the handler runs.
ForksOn ==
    /\ proc.overlap => proc'.overlap
    /\ ~proc'.overlap /\ proc'.handler # "none" =>
         \A t \in Threads \ {proc'.main} : proc'.pc[t] \in Forkers =>
             proc'.main = proc.main /\ proc.pc[t] \in Forkers /\ proc.handler # "none"

LEMMA CallsForkOn ==
  ASSUME proc \in Process, NEW t \in Threads, NEW from, NEW to, CallStep(t, from, to), SameSelf,
         proc.overlap => proc'.overlap, to \in Forkers => from \in Forkers \/ proc.handler = "none" \/ proc'.overlap
  PROVE  ForksOn
  BY ProcessFields DEF ForksOn, CallStep, SameSelf

LEMMA EntersForkOn ==
  ASSUME IInv, NEW t \in Threads, Enters(t) \/ Leaves(t)
  PROVE  ForksOn
  <1> USE DEF SameTracing, SameMarks
  <1>1. proc \in Process
    BY DEF IInv, TypeOK
  <1>2. Take(t) => proc.at[t] \in Tracers
    BY DEF Take, At, IInv, Discipline, SelfInCall, InCall, Steps
  <1>3. CASE Enters(t)
    <2>1. PICK from, to \in {"idle", "begin", "takeOver", "asking", "installed", "install", "publish"} :
            CallStep(t, from, to)
      BY <1>1, <1>3, CallEnterDoes, BeginDoes, BeginFailsDoes, LockHandlersDoes, TakeOverDoes, LeaveHandlersDoes,
         KeepPreviousDoes, InstallDoes, PublishDoes DEF Enters
    <2>2. SameSelf /\ (proc.overlap => proc'.overlap)
      BY <1>1, <1>3, CallEnterDoes, BeginDoes, BeginFailsDoes, LockHandlersDoes, TakeOverDoes, LeaveHandlersDoes,
         KeepPreviousDoes, InstallDoes, PublishDoes DEF Enters
    <2>3. QED
      BY <1>1, <2>1, <2>2, CallsForkOn DEF Forkers
  <1>4. CASE Leaves(t)
    <2>1. PICK from, to \in {"clear", "handBack", "handing", "stop", "take", "flush", "join", "idle"} :
            CallStep(t, from, to)
      BY <1>1, <1>2, <1>4, CallExitDoes, ClearDoes, LockToHandBackDoes, HandBackDoes, StopAdvertisingDoes,
         TakeDoes, FlushDoes, JoinDoes DEF Leaves
    <2>2. SameSelf /\ (proc.overlap => proc'.overlap)
      BY <1>1, <1>2, <1>4, CallExitDoes, ClearDoes, LockToHandBackDoes, HandBackDoes, StopAdvertisingDoes,
         TakeDoes, FlushDoes, JoinDoes DEF Leaves
    <2>3. QED
      BY <1>1, <2>1, <2>2, CallsForkOn DEF Forkers
  <1>5. QED
    BY <1>3, <1>4

LEMMA OthersForkOn ==
  ASSUME IInv, NEW t \in Threads,
         \/ \E r \in DOMAIN made : ReadTails(r) \/ ReadTailsEnd(r)
         \/ Signals \/ (Forks(t) /\ ~Fork(t) /\ ~Spawn(t)) \/ Use(t) \/ Waits(t)
         \/ \E tr \in Tracers : CallUse(t, tr)
  PROVE  ForksOn
  <1> USE DEF SameTracing, SameMarks, SameCalls, SameSelf, HandlerStep
  <1>1. proc \in Process
    BY DEF IInv, TypeOK
  <1>2. CASE (\E tr \in Tracers : CallUse(t, tr)) \/ Use(t)
    <2>1. PICK from, to \in {"use", "idle"} : CallStep(t, from, to)
      BY <1>1, <1>2, CallUseDoes, UseDoes
    <2>2. SameSelf /\ proc'.overlap = proc.overlap
      BY <1>1, <1>2, CallUseDoes, UseDoes
    <2>3. QED
      BY <1>1, <2>1, <2>2, CallsForkOn DEF Forkers
  <1>3. CASE \E r \in DOMAIN made : ReadTails(r) \/ ReadTailsEnd(r)
    BY <1>1, <1>3, ReadTailsDoes DEF ForksOn
  <1>4. CASE Waits(t)
    BY <1>1, <1>4, WaitsDoes DEF ForksOn
  <1>5. CASE Deliver
    BY <1>1, <1>5, DeliverDoes DEF ForksOn, Forking, Forkers
  <1>6. CASE EndActive
    BY <1>1, <1>6, EndActiveDoes DEF ForksOn
  <1>7. CASE Signals /\ ~Deliver /\ ~EndActive
    BY <1>1, <1>7, UserHandlesDoes, KilledDoes, LookUpDoes, HandlerFlushDoes, HandlerJoinDoes, RaiseDoes
       DEF ForksOn, Signals
  <1>8. CASE CallFork(t)
    BY <1>1, <1>8, CallForkDoes, CallsForkOn
  <1>9. CASE BeforeFork(t)
    BY <1>1, <1>9, BeforeForkDoes, CallsForkOn DEF Forkers
  <1>10. CASE ForkReturns(t)
    BY <1>1, <1>10, ForkReturnsDoes, CallsForkOn DEF Forkers
  <1>11. CASE AfterForkInParent(t) \/ AfterForkInChild(t)
    <2>1. PICK from : CallStep(t, from, "idle")
      BY <1>1, <1>11, AfterForkInParentDoes, AfterForkInChildDoes
    <2>2. SameSelf /\ proc'.overlap = proc.overlap
      BY <1>1, <1>11, AfterForkInParentDoes, AfterForkInChildDoes
    <2>3. QED
      BY <1>1, <2>1, <2>2, CallsForkOn DEF Forkers
  <1>12. QED
    BY <1>2, <1>3, <1>4, <1>5, <1>6, <1>7, <1>8, <1>9, <1>10, <1>11 DEF Forks

LEMMA NextUndisturbed ==
  ASSUME IInv, Known, Ordered, Undisturbed, [Next]_vars
  PROVE  Undisturbed'
  <1> USE LocksDiffer, ProcessFields
  <1>1. proc \in Process
    BY DEF IInv, TypeOK
  <1>2. CASE UNCHANGED vars
    BY <1>2 DEF vars, Undisturbed, ForkAlone, NoneVanished
  <1>3. CASE OwnersThreads /\ ForksOn
    <2>1. ~proc'.overlap => ForkAlone'
      BY <1>3 DEF Undisturbed, ForkAlone, ForksOn
    <2>2. ~proc'.overlap => NoneVanished'
      BY <1>3 DEF Undisturbed, NoneVanished, ForksOn, OwnersThreads
    <2>3. QED
      BY <2>1, <2>2 DEF Undisturbed
  <1>4. ASSUME NEW t \in Threads, Fork(t) PROVE Undisturbed'
    <2>1. /\ proc'.handler = "none" /\ proc'.overlap = proc.overlap
          /\ proc'.owner = [l \in Locks |-> IF Free(l) THEN NoOne ELSE Vanished]
      BY <1>1, <1>4, ForkDoes DEF SameMarks
    <2>2. ForkAlone'
      BY <2>1 DEF ForkAlone
    <2>3. ~proc.overlap => NoneVanished'
      BY <1>4, <2>1, ForkFree DEF NoneVanished
    <2>4. QED
      BY <2>1, <2>2, <2>3 DEF Undisturbed
  <1>5. ASSUME NEW t \in Threads, Spawn(t) PROVE Undisturbed'
    <2>1. proc.env # NoTracer /\ proc' = Fresh(t, proc.env)
      BY <1>1, <1>5, SpawnDoes
    <2>2. proc'.handler = "none" /\ proc'.owner = [l \in Locks |-> NoOne]
      BY <2>1, FreshHas
    <2>3. QED
      BY <2>2 DEF Undisturbed, ForkAlone, NoneVanished
  <1>6. ASSUME NEW t \in Threads, Enters(t) \/ Leaves(t) PROVE Undisturbed'
    BY <1>3, <1>6, CallOwners, EntersForkOn
  <1>7. ASSUME NEW t \in Threads, Forks(t), ~Fork(t), ~Spawn(t) PROVE Undisturbed'
    BY <1>3, <1>7, OthersOwners, OthersForkOn
  <1>8. ASSUME NEW t \in Threads, (\E tr \in Tracers : CallUse(t, tr)) \/ Use(t) \/ Waits(t) PROVE Undisturbed'
    BY <1>3, <1>8, OthersOwners, OthersForkOn
  <1>9. CASE Signals \/ \E r \in DOMAIN made : ReadTails(r) \/ ReadTailsEnd(r)
    <2>1. proc.main \in Threads
      BY <1>1
    <2>2. QED
      BY <1>3, <1>9, <2>1, OthersOwners, OthersForkOn
  <1>10. QED
    BY <1>2, <1>4, <1>5, <1>6, <1>7, <1>8, <1>9 DEF Next

LEMMA InitUndisturbed == Init => Undisturbed
  <1> SUFFICES ASSUME Init PROVE Undisturbed
    OBVIOUS
  <1>1. PICK t \in Threads, d \in {"default", "user", "ignored"} :
          proc = [Fresh(t, NoTracer) EXCEPT !.pc = [u \in Threads |-> "idle"], !.disp = d]
    BY DEF Init
  <1>2. proc.handler = "none" /\ proc.owner = [l \in Locks |-> NoOne]
    BY <1>1 DEF Fresh
  <1>3. QED
    BY <1>2 DEF Undisturbed, ForkAlone, NoneVanished

LEMMA AlwaysUndisturbed == Spec => []Undisturbed
  <1>1. IInv /\ Known /\ Ordered /\ Undisturbed /\ [Next]_vars => Undisturbed'
    BY NextUndisturbed
  <1>2. QED
    BY <1>1, InitUndisturbed, Invariant, AlwaysKnown, AlwaysOrdered, PTL DEF Spec

---------------------------------------------------------------------------
(* Where the runs are, while nothing overlaps a fork.                       *)

\* PROFILER_ID has one user, and so have the tracers' slots.
OneSlot == \A x, y \in Tracers : proc.slot[x] # 0 /\ proc.slot[y] # 0 => x = y

\* Between Begin and Install the tool is the new run's and no slot has one.
StartingAlone ==
    \A t \in Threads : proc.pc[t] \in Starting =>
        /\ proc.tool = proc.hand[t] /\ proc.hand[t] # 0
        /\ \A tr \in Tracers : proc.slot[tr] = 0
        /\ \A u \in Threads \ {t} : proc.pc[u] \notin Starting

\* A run in a slot is monitored, except around a fork.
Monitored ==
    (\A t \in Threads : proc.pc[t] \notin Forked) =>
        \A tr \in Tracers : proc.slot[tr] # 0 => tr \in proc.monitored /\ proc.tool = proc.slot[tr]
ForkedFree == (\E t \in Threads : proc.pc[t] \in Forked) => proc.tool = 0

\* No run of the process is lost.
Located ==
    \A r \in 1 .. Len(made) : Own(r) =>
        \/ r \in finished \/ proc.dying = r
        \/ \E tr \in Tracers : proc.slot[tr] = r
        \/ \E t \in Threads : proc.hand[t] = r

\* Nor has it any of its parent's, once the fork hook has run.
OwnSlots ==
    (\A t \in Threads : proc.pc[t] # "inChild") =>
        \A tr \in Tracers : proc.slot[tr] # 0 => Own(proc.slot[tr])
OwnHands == \A t \in Threads : proc.hand[t] # 0 => Own(proc.hand[t])

\* The handler has found every run there was, if it was not taken already.
Dooms ==
    Doomed =>
        /\ \A tr \in Tracers : proc.slot[tr] = 0 \/ proc.slot[tr] > proc.signalled
        /\ \A t \in Threads : proc.pc[t] \in Starting => proc.hand[t] > proc.signalled

Tracked ==
    OneSlot /\ StartingAlone /\ Monitored /\ ForkedFree /\ Located /\ OwnSlots /\ OwnHands /\ Dooms

(* Until the handler ends a run.                                            *)

\* A run that goes to ACTIVE is not being taken.
PublishAlone ==
    \A t \in Threads : proc.pc[t] = "publish" =>
        /\ proc.slot[proc.at[t]] # 0
        /\ \A u \in Threads \ {t} : proc.pc[u] \notin Leaving \cup {"publish"}

\* The tool is not left with a run that has ended.
ToolUsed ==
    proc.tool # 0 =>
        \/ \E t \in Threads : proc.pc[t] \in Starting
        \/ \E tr \in Tracers : proc.slot[tr] = proc.tool

\* ACTIVE leads to the run, or a call does that publishes it or takes it.
ActiveSlot ==
    \A tr \in Tracers : proc.slot[tr] # 0 =>
        \/ proc.active = tr
        \/ \E t \in Threads : proc.at[t] = tr /\ proc.pc[t] \in Cleared \cup {"publish"}

\* Only the innermost tracer is left, and by one thread, while there are others.
LeavingAlone ==
    \A t \in Threads : proc.pc[t] \in Leaving =>
        /\ \A tr \in Tracers : proc.slot[tr] # 0 => proc.at[t] = tr
        /\ \A u \in Others(t) : proc.pc[u] \notin Leaving /\ proc.slot[proc.at[t]] # 0
ActiveCleared == \A t \in Threads : proc.pc[t] \in Cleared => proc.active = NoTracer

\* What a child forgot, it would not have traced.
Stale == \A tr \in Tracers : proc.active = tr /\ proc.slot[tr] = 0 => tr \notin Subprocesses

\* The handlers are handed back before the run is taken.
Drained ==
    \A t \in Threads : proc.pc[t] \in {"stop", "take"} /\ proc.slot[proc.at[t]] # 0 => proc.saved = "none"

InnermostRuns ==
    (\A t \in Threads : proc.pc[t] \notin Leaving \cup {"publish"}) =>
        \A tr \in Tracers : proc.slot[tr] # 0 =>
            proc.entered # <<>> /\ proc.entered[Len(proc.entered)] = tr

\* With other threads alive, what was entered is one tracer, and it runs.
OneEntered ==
    proc.entered # <<>> =>
        \A t \in Threads : Others(t) # {} /\ proc.pc[t] # "gone" =>
            /\ proc.pc[t] \notin Starting \cup Leaving \cup {"publish"}
            /\ Len(proc.entered) = 1 /\ proc.slot[proc.entered[1]] # 0
            /\ proc.active = proc.entered[1]

Settled ==
    /\ PublishAlone /\ ToolUsed /\ ActiveSlot /\ LeavingAlone /\ ActiveCleared /\ Stale
    /\ Drained /\ InnermostRuns /\ OneEntered

Follows == Tracked /\ (~Doomed => Settled)

\* What a step may find while nothing overlaps a fork.
InOrder == IInv /\ Known /\ Ordered /\ Undisturbed /\ Follows /\ ~proc.overlap

---------------------------------------------------------------------------
(* Follows is kept by steps that leave the runs and the tool alone.         *)

LEMMA QuietTracks ==
  ASSUME InOrder, NEW t \in Threads, NEW from \in Steps, NEW to \in Steps, CallStep(t, from, to),
         SameSelf, SameRuns, SameTool, UNCHANGED history,
         from \in Starting <=> to \in Starting, from # "inChild", to # "inChild",
         to \in Forked => from \in Forked \/ proc.tool = 0,
         from \in Forked => to \in Forked \/ \A tr \in Tracers : proc.slot[tr] = 0
  PROVE  Tracked'
  <1> USE DEF SameSelf, SameRuns, SameTool, history
  <1>1. proc \in Process /\ Tracked
    BY DEF InOrder, IInv, TypeOK, Follows
  <1>2. /\ proc'.pc[t] = to /\ proc.pc[t] = from
        /\ \A u \in Threads \ {t} : proc'.pc[u] = proc.pc[u]
    BY <1>1, ProcessFields DEF CallStep
  <1>3. OneSlot'
    BY <1>1 DEF Tracked, OneSlot
  <1>4. StartingAlone'
    BY <1>1, <1>2 DEF Tracked, StartingAlone
  <1>5. Monitored'
    BY <1>1, <1>2 DEF Tracked, Monitored
  <1>6. ForkedFree'
    BY <1>1, <1>2 DEF Tracked, ForkedFree
  <1>7. Located'
    BY <1>1 DEF Tracked, Located, Own
  <1>8. OwnSlots'
    BY <1>1, <1>2 DEF Tracked, OwnSlots, Own
  <1>9. OwnHands'
    BY <1>1 DEF Tracked, OwnHands, Own
  <1>10. Dooms'
    BY <1>1, <1>2 DEF Tracked, Dooms, Doomed
  <1>11. QED
    BY <1>3, <1>4, <1>5, <1>6, <1>7, <1>8, <1>9, <1>10 DEF Tracked

LEMMA IdlyTracks ==
  ASSUME InOrder, SameCalls, SameRuns, SameTool, proc'.dying = proc.dying, UNCHANGED history, Dooms'
  PROVE  Tracked'
  <1> USE DEF SameRuns, SameTool, SameCalls, history
  <1>1. Tracked
    BY DEF InOrder, Follows
  <1>2. OneSlot' /\ StartingAlone'
    BY <1>1 DEF Tracked, OneSlot, StartingAlone
  <1>3. Monitored' /\ ForkedFree'
    BY <1>1 DEF Tracked, Monitored, ForkedFree
  <1>4. Located'
    BY <1>1 DEF Tracked, Located, Own
  <1>5. OwnSlots' /\ OwnHands'
    BY <1>1 DEF Tracked, OwnSlots, OwnHands, Own
  <1>6. QED
    BY <1>2, <1>3, <1>4, <1>5 DEF Tracked

LEMMA SameOthers ==
  ASSUME proc \in Process, NEW t \in Threads, NEW from \in Steps \ {"gone"}, NEW to \in Steps \ {"gone"},
         CallStep(t, from, to)
  PROVE  \A u \in Threads : Others(u)' = Others(u)
  BY ProcessFields DEF Others, CallStep

LEMMA QuietSettles ==
  ASSUME InOrder, ~Doomed, NEW t \in Threads, NEW from \in Steps \ {"gone"}, NEW to \in Steps \ {"gone"},
         CallStep(t, from, to), NEW self, SelfIs(t, self),
         SameSelf, SameRuns, SameTool, SameActive, UNCHANGED history,
         from \in Starting <=> to \in Starting, from \in Leaving <=> to \in Leaving,
         from \in Cleared <=> to \in Cleared, from = "publish" <=> to = "publish",
         to \in Leaving \cup {"publish"} => self = proc.at[t],
         proc'.saved \in {proc.saved, "none"} \/ \A tr \in Tracers : proc.slot[tr] = 0,
         to \in {"stop", "take"} => from \in {"stop", "take"} \/ proc'.saved = "none"
  PROVE  Settled'
  <1> USE DEF SameSelf, SameRuns, SameTool, SameActive, history
  <1>1. proc \in Process /\ Settled /\ SelfInCall
    BY DEF InOrder, IInv, TypeOK, Follows, Discipline
  <1>2. /\ proc'.pc[t] = to /\ proc.pc[t] = from /\ proc'.at[t] = self
        /\ \A u \in Threads \ {t} : proc'.pc[u] = proc.pc[u] /\ proc'.at[u] = proc.at[u]
    BY <1>1, ProcessFields DEF CallStep, SelfIs
  <1>3. \A u \in Threads : Others(u)' = Others(u)
    BY <1>1, SameOthers
  <1>4. PublishAlone'
    BY <1>1, <1>2 DEF Settled, PublishAlone
  <1>5. ToolUsed'
    BY <1>1, <1>2 DEF Settled, ToolUsed
  <1>6. ActiveSlot'
    BY <1>1, <1>2 DEF Settled, ActiveSlot, Cleared, Leaving
  <1>7. LeavingAlone'
    <2> SUFFICES ASSUME NEW v \in Threads, proc'.pc[v] \in Leaving
                 PROVE  /\ \A tr \in Tracers : proc.slot[tr] # 0 => proc'.at[v] = tr
                        /\ \A u \in Others(v) : proc'.pc[u] \notin Leaving /\ proc.slot[proc'.at[v]] # 0
      BY <1>3 DEF LeavingAlone
    <2>1. proc.pc[v] \in Leaving /\ proc'.at[v] = proc.at[v]
      BY <1>2
    <2>2. \A u \in Others(v) : proc'.pc[u] \in Leaving => proc.pc[u] \in Leaving
      BY <1>2 DEF Others
    <2>3. QED
      BY <1>1, <2>1, <2>2 DEF Settled, LeavingAlone
  <1>8. ActiveCleared'
    BY <1>1, <1>2 DEF Settled, ActiveCleared
  <1>9. Stale'
    BY <1>1 DEF Settled, Stale
  <1>10. Drained'
    <2> SUFFICES ASSUME NEW v \in Threads, proc'.pc[v] \in {"stop", "take"}, proc.slot[proc'.at[v]] # 0
                 PROVE  proc'.saved = "none"
      BY DEF Drained
    <2>1. proc.pc[v] \in Leaving /\ proc'.at[v] = proc.at[v]
      BY <1>2 DEF Leaving
    <2>2. proc.at[v] \in Tracers
      BY <1>1, <2>1 DEF SelfInCall, InCall, Leaving, Steps
    <2>3. CASE proc.pc[v] \in {"stop", "take"}
      BY <1>1, <2>1, <2>2, <2>3 DEF Settled, Drained
    <2>4. CASE proc.pc[v] \notin {"stop", "take"}
      BY <1>2, <2>4
    <2>5. QED
      BY <2>3, <2>4
  <1>11. InnermostRuns'
    BY <1>1, <1>2 DEF Settled, InnermostRuns
  <1>12. OneEntered'
    <2> SUFFICES ASSUME proc.entered # <<>>, NEW v \in Threads, Others(v) # {}, proc'.pc[v] # "gone"
                 PROVE  /\ proc'.pc[v] \notin Starting \cup Leaving \cup {"publish"}
                        /\ Len(proc.entered) = 1 /\ proc.slot[proc.entered[1]] # 0
                        /\ proc.active = proc.entered[1]
      BY <1>3 DEF OneEntered
    <2>1. proc.pc[v] # "gone"
      BY <1>2
    <2>2. proc.pc[v] \notin Starting \cup Leaving \cup {"publish"} =>
             proc'.pc[v] \notin Starting \cup Leaving \cup {"publish"}
      BY <1>2
    <2>3. QED
      BY <1>1, <2>1, <2>2 DEF Settled, OneEntered
  <1>13. QED
    BY <1>4, <1>5, <1>6, <1>7, <1>8, <1>9, <1>10, <1>11, <1>12 DEF Settled

LEMMA IdlySettles ==
  ASSUME InOrder, ~Doomed, SameCalls, SameRuns, SameTool, SameActive, SameSaved
  PROVE  Settled'
  <1> USE DEF SameCalls, SameRuns, SameTool, SameActive, SameSaved
  <1>1. Settled
    BY DEF InOrder, Follows
  <1>2. \A u \in Threads : Others(u)' = Others(u)
    BY DEF Others
  <1>3. PublishAlone' /\ ToolUsed' /\ ActiveSlot'
    BY <1>1 DEF Settled, PublishAlone, ToolUsed, ActiveSlot
  <1>4. LeavingAlone'
    BY <1>1, <1>2 DEF Settled, LeavingAlone
  <1>5. ActiveCleared' /\ Stale' /\ Drained'
    BY <1>1 DEF Settled, ActiveCleared, Stale, Drained
  <1>6. InnermostRuns'
    BY <1>1 DEF Settled, InnermostRuns
  <1>7. OneEntered'
    BY <1>1, <1>2 DEF Settled, OneEntered
  <1>8. QED
    BY <1>3, <1>4, <1>5, <1>6, <1>7 DEF Settled

\* A step of a call that keeps to its part of the call.
LEMMA QuietFollows ==
  ASSUME InOrder, NEW t \in Threads, NEW from \in Steps \ {"gone"}, NEW to \in Steps \ {"gone"},
         CallStep(t, from, to), NEW self, SelfIs(t, self), SameTracing,
         from \in Starting <=> to \in Starting, from \in Leaving <=> to \in Leaving,
         from \in Cleared <=> to \in Cleared, from = "publish" <=> to = "publish",
         from # "inChild", to # "inChild",
         to \in Forked => from \in Forked \/ proc.tool = 0,
         from \in Forked => to \in Forked \/ \A tr \in Tracers : proc.slot[tr] = 0,
         to \in Leaving \cup {"publish"} => self = proc.at[t],
         proc'.saved \in {proc.saved, "none"} \/ \A tr \in Tracers : proc.slot[tr] = 0,
         to \in {"stop", "take"} => from \in {"stop", "take"} \/ proc'.saved = "none"
  PROVE  Follows'
  <1>1. Doomed' = Doomed /\ SameSelf /\ SameRuns /\ SameTool /\ SameActive /\ UNCHANGED history
    BY DEF Doomed, SameTracing, SameSelf
  <1>2. Tracked'
    BY <1>1, QuietTracks
  <1>3. ~Doomed => Settled'
    BY <1>1, QuietSettles
  <1>4. QED
    BY <1>1, <1>2, <1>3 DEF Follows

---------------------------------------------------------------------------
(* Follows is kept by entering a tracer.                                    *)

\* Who enters or leaves knows that nobody is around a fork.
LEMMA NobodyForks ==
  ASSUME InOrder, NEW t \in Threads, proc.pc[t] \notin Bystanders \cup Forkers \cup {"inChild"}
  PROVE  \A u \in Threads : proc.pc[u] \notin Forked
  <1>1. \A u \in Threads : proc.pc[u] \notin Forkers
    BY DEF InOrder, Known, ForksAlone
  <1>2. \A u \in Threads : proc.pc[u] # "inChild"
    BY DEF InOrder, Ordered, ChildAlone, Others, Bystanders
  <1>3. QED
    BY <1>1, <1>2 DEF Forked, Forkers

\* A step that entering a tracer takes, with its run in hand or not yet made.
LEMMA EntersQuietly ==
  ASSUME InOrder, NEW t \in Threads,
         \/ \E tr \in Tracers : CallEnter(t, tr)
         \/ BeginFails(t) \/ LockHandlers(t) \/ TakeOver(t) \/ LeaveHandlers(t) \/ KeepPrevious(t)
  PROVE  Follows'
  <1> USE DEF Starting, Leaving, Cleared, Forked
  <1>1. proc \in Process /\ Follows
    BY DEF InOrder, IInv, TypeOK
  <1>2. \A from, to \in {"idle", "begin"} \cup Starting : from \in Steps \ {"gone"} /\ to \in Steps \ {"gone"}
    BY DEF Steps
  <1>3. ASSUME NEW tr \in Tracers, CallEnter(t, tr) PROVE Follows'
    <2>1. CallStep(t, "idle", "begin") /\ SelfIs(t, tr) /\ SameTracing /\ SameSaved
      BY <1>1, <1>3, CallEnterDoes
    <2>2. QED
      BY <1>2, <2>1, QuietFollows DEF SameSaved
  <1>4. CASE BeginFails(t)
    <2>1. CallStep(t, "begin", "idle") /\ SelfIs(t, NoTracer) /\ SameTracing /\ SameSaved
      BY <1>1, <1>4, BeginFailsDoes
    <2>2. QED
      BY <1>2, <2>1, QuietFollows DEF SameSaved
  <1>5. CASE LockHandlers(t)
    <2>1. CallStep(t, "takeOver", "asking") /\ SelfIs(t, proc.at[t]) /\ SameTracing /\ SameSaved
      BY <1>1, <1>5, LockHandlersDoes
    <2>2. QED
      BY <1>2, <2>1, QuietFollows DEF SameSaved
  <1>6. CASE TakeOver(t)
    <2>1. CallStep(t, "asking", "installed") /\ SelfIs(t, proc.at[t]) /\ SameTracing /\ SameSaved
      BY <1>1, <1>6, TakeOverDoes
    <2>2. QED
      BY <1>2, <2>1, QuietFollows DEF SameSaved
  <1>7. CASE LeaveHandlers(t)
    <2>1. CallStep(t, "asking", "install") /\ SelfIs(t, proc.at[t]) /\ SameTracing /\ SameSaved
      BY <1>1, <1>7, LeaveHandlersDoes
    <2>2. QED
      BY <1>2, <2>1, QuietFollows DEF SameSaved
  <1>8. CASE KeepPrevious(t)
    <2>1. CallStep(t, "installed", "install") /\ SelfIs(t, proc.at[t]) /\ SameTracing
      BY <1>1, <1>8, KeepPreviousDoes
    <2>2. \A tr \in Tracers : proc.slot[tr] = 0
      BY <1>1, <2>1 DEF Follows, Tracked, StartingAlone, CallStep
    <2>3. QED
      BY <1>2, <2>1, <2>2, QuietFollows
  <1>9. QED
    BY <1>3, <1>4, <1>5, <1>6, <1>7, <1>8

\* enable took the tool, so no tracer had a run.
LEMMA BeginFollows ==
  ASSUME InOrder, NEW t \in Threads, Begin(t)
  PROVE  Follows'
  <1> USE ProcessFields
  <1>1. proc \in Process /\ Tracked /\ made \in Seq(Tracers) /\ inherited \in 0 .. Len(made) /\ Discipline
    BY DEF InOrder, IInv, TypeOK, Follows
  <1>2. /\ CallStep(t, "begin", "takeOver") /\ SelfIs(t, proc.at[t]) /\ proc.tool = 0
        /\ SameSelf /\ SameActive /\ SameSaved /\ proc'.slot = proc.slot
        /\ proc'.tool = NextRun /\ proc'.hand = [proc.hand EXCEPT ![t] = NextRun]
        /\ made' = Append(made, proc.at[t]) /\ UNCHANGED <<inherited, finished>>
    BY <1>1, BeginDoes
  <1>3. /\ proc'.pc[t] = "takeOver" /\ proc.pc[t] = "begin" /\ proc'.at = proc.at
        /\ \A u \in Threads \ {t} : proc'.pc[u] = proc.pc[u] /\ proc'.hand[u] = proc.hand[u]
        /\ proc'.hand[t] = NextRun
    <2>1. proc'.at = proc.at
      BY <1>1, <1>2 DEF SelfIs
    <2>2. /\ proc'.pc[t] = "takeOver" /\ proc.pc[t] = "begin"
          /\ \A u \in Threads \ {t} : proc'.pc[u] = proc.pc[u]
      BY <1>1, <1>2 DEF CallStep
    <2>3. proc'.hand[t] = NextRun /\ \A u \in Threads \ {t} : proc'.hand[u] = proc.hand[u]
      BY <1>1, <1>2
    <2>4. QED
      BY <2>1, <2>2, <2>3
  <1>4. \A u \in Threads : proc.pc[u] \notin Forked
    BY <1>3, NobodyForks DEF Bystanders, Forkers
  <1>5. \A tr \in Tracers : proc.slot[tr] = 0
    BY <1>1, <1>2, <1>4 DEF Tracked, Monitored
  <1>6. \A u \in Threads : proc.pc[u] \notin Starting
    BY <1>1, <1>2 DEF Tracked, StartingAlone
  <1>7. /\ Len(made) \in Nat /\ NextRun \in Nat \ {0} /\ Len(made') = NextRun /\ NextRun > Len(made)
        /\ NextRun > inherited /\ \A r \in 1 .. NextRun : r # NextRun => r \in 1 .. Len(made)
    <2>1. proc.at[t] \in Tracers
      BY <1>1, <1>3 DEF Discipline, SelfInCall, InCall, Steps
    <2>2. Len(made) \in Nat /\ Len(made') = Len(made) + 1
      BY <1>1, <1>2, <2>1
    <2>3. QED
      BY <1>1, <2>2 DEF NextRun
  <1>8. proc.hand[t] = 0
    BY <1>3 DEF InOrder, Ordered, HandsEmpty, Starting, Finishing
  <1>9. OneSlot'
    BY <1>2, <1>5 DEF OneSlot
  <1>10. StartingAlone'
    BY <1>2, <1>3, <1>5, <1>6, <1>7 DEF StartingAlone
  <1>11. Monitored'
    BY <1>2, <1>5 DEF Monitored
  <1>12. ForkedFree'
    BY <1>3, <1>4 DEF ForkedFree, Forked
  <1>13. Located'
    <2> SUFFICES ASSUME NEW r \in 1 .. NextRun, r > inherited
                 PROVE  \/ r \in finished \/ proc.dying = r
                        \/ \E tr \in Tracers : proc.slot[tr] = r
                        \/ \E u \in Threads : proc'.hand[u] = r
      BY <1>2, <1>7 DEF Located, Own, SameSelf
    <2>1. CASE r = NextRun
      BY <1>3, <2>1
    <2>2. CASE r # NextRun
      <3>1. r \in 1 .. Len(made) /\ r # 0
        BY <1>7, <2>2
      <3>2. QED
        BY <1>1, <1>3, <1>8, <3>1 DEF Tracked, Located, Own
    <2>3. QED
      BY <2>1, <2>2
  <1>14. OwnSlots'
    BY <1>2, <1>5 DEF OwnSlots
  <1>15. OwnHands'
    BY <1>1, <1>2, <1>3, <1>7 DEF Tracked, OwnHands, Own
  <1>16. Dooms'
    <2>1. proc.signalled <= Len(made) /\ proc.signalled \in Nat
      BY <1>1 DEF InOrder, Ordered, HandlerBusy, Process
    <2>2. NextRun > proc.signalled
      BY <1>7, <2>1
    <2>3. \A u \in Threads : proc'.pc[u] \in Starting => u = t
      BY <1>3, <1>6
    <2>4. QED
      BY <1>2, <1>3, <1>5, <2>2, <2>3 DEF Dooms, SameSelf
  <1>17. ASSUME ~Doomed PROVE Settled'
    <2> USE DEF SameActive, SameSaved
    <2>1. Settled
      BY <1>17 DEF InOrder, Follows
    <2>2. \A u \in Threads : Others(u)' = Others(u)
      BY <1>1, <1>2, SameOthers DEF Steps
    <2>3. /\ PublishAlone' /\ ActiveSlot' /\ Drained' /\ InnermostRuns'
      <3>1. \A u \in Threads : proc.pc[u] # "publish"
        BY <2>1, <1>1, <1>5 DEF Settled, PublishAlone, Discipline, SelfInCall, InCall, Steps
      <3>2. \A u \in Threads : proc'.pc[u] \in {"stop", "take"} => proc.at[u] \in Tracers
        BY <1>1, <1>3 DEF Discipline, SelfInCall, InCall, Steps
      <3>3. PublishAlone'
        BY <1>3, <3>1 DEF PublishAlone
      <3>4. QED
        BY <1>2, <1>3, <1>5, <3>2, <3>3 DEF ActiveSlot, Drained, InnermostRuns
    <2>4. ToolUsed'
      BY <1>3 DEF ToolUsed, Starting
    <2>5. \A u \in Threads : proc'.pc[u] \in Leaving => proc.pc[u] \in Leaving
      BY <1>3 DEF Leaving
    <2>6. LeavingAlone' /\ ActiveCleared'
      <3>1. ActiveCleared'
        BY <1>2, <1>3, <2>1 DEF Settled, ActiveCleared, Cleared
      <3>2. LeavingAlone'
        BY <1>2, <1>3, <2>1, <2>2, <2>5 DEF Settled, LeavingAlone, Others
      <3>3. QED
        BY <3>1, <3>2
    <2>7. Stale'
      BY <1>2, <2>1 DEF Settled, Stale
    <2>8. OneEntered'
      <3>1. ASSUME proc.entered # <<>>, NEW u \in Threads, Others(u) # {}, proc'.pc[u] # "gone"
            PROVE  FALSE
        <4>1. proc.pc[u] # "gone"
          BY <1>3, <3>1
        <4>2. /\ proc.slot[proc.entered[1]] # 0 /\ proc.active = proc.entered[1] /\ Len(proc.entered) = 1
          BY <2>1, <3>1, <4>1 DEF Settled, OneEntered
        <4>3. proc.entered[1] \in Tracers
          BY <1>1, <4>2 DEF Process
        <4>4. QED
          BY <1>5, <4>2, <4>3
      <3>2. QED
        BY <1>2, <2>2, <3>1 DEF OneEntered
    <2>9. QED
      BY <2>3, <2>4, <2>6, <2>7, <2>8 DEF Settled
  <1>18. Doomed' = Doomed
    BY <1>2 DEF Doomed, SameSelf
  <1>19. QED
    BY <1>9, <1>10, <1>11, <1>12, <1>13, <1>14, <1>15, <1>16, <1>17, <1>18 DEF Tracked, Follows
\* The run goes from the stack into its tracer.
LEMMA InstallFollows ==
  ASSUME InOrder, NEW t \in Threads, Install(t)
  PROVE  Follows'
  <1> USE ProcessFields
  <1>1. proc \in Process /\ Tracked /\ Discipline
    BY DEF InOrder, IInv, TypeOK, Follows
  <1>2. /\ CallStep(t, "install", "publish") /\ SelfIs(t, proc.at[t])
        /\ SameSelf /\ SameActive /\ SameSaved /\ UNCHANGED history
        /\ proc'.tool = proc.tool
        /\ proc'.slot = [proc.slot EXCEPT ![proc.at[t]] = proc.hand[t]]
        /\ proc'.hand = [proc.hand EXCEPT ![t] = 0]
        /\ proc'.monitored = proc.monitored \cup {proc.at[t]}
    BY <1>1, InstallDoes
  <1>3. /\ proc'.pc[t] = "publish" /\ proc.pc[t] = "install" /\ proc'.at = proc.at
        /\ \A u \in Threads \ {t} : proc'.pc[u] = proc.pc[u] /\ proc'.hand[u] = proc.hand[u]
        /\ proc'.hand[t] = 0
    BY <1>1, <1>2 DEF CallStep, SelfIs
  <1>4. proc.at[t] \in Tracers
    BY <1>1, <1>3 DEF Discipline, SelfInCall, InCall, Steps
  <1>5. /\ \A tr \in Tracers : proc.slot[tr] = 0
        /\ \A u \in Threads \ {t} : proc.pc[u] \notin Starting
        /\ proc.tool = proc.hand[t] /\ proc.hand[t] # 0
    BY <1>1, <1>3 DEF Tracked, StartingAlone, Starting
  <1>6. \A tr \in Tracers : proc'.slot[tr] = IF tr = proc.at[t] THEN proc.tool ELSE 0
    BY <1>1, <1>2, <1>5
  <1>7. OneSlot'
    BY <1>6 DEF OneSlot
  <1>8. StartingAlone'
    BY <1>3, <1>5 DEF StartingAlone, Starting
  <1>9. Monitored'
    BY <1>2, <1>6 DEF Monitored
  <1>10. ForkedFree'
    BY <1>1, <1>2, <1>3 DEF Tracked, ForkedFree, Forked
  <1>11. Located'
    <2> SUFFICES ASSUME NEW r \in 1 .. Len(made), r > inherited
                 PROVE  \/ r \in finished \/ proc.dying = r
                        \/ \E tr \in Tracers : proc'.slot[tr] = r
                        \/ \E u \in Threads : proc'.hand[u] = r
      BY <1>2 DEF Located, Own, SameSelf, history
    <2>1. CASE proc.hand[t] = r
      BY <1>4, <1>5, <1>6, <2>1
    <2>2. CASE proc.hand[t] # r
      <3>1. r # 0
        OBVIOUS
      <3>2. r \in finished \/ proc.dying = r \/ \E u \in Threads : proc.hand[u] = r
        BY <1>1, <1>5, <3>1 DEF Tracked, Located, Own
      <3>3. QED
        BY <1>3, <2>2, <3>2
    <2>3. QED
      BY <2>1, <2>2
  <1>12. OwnSlots'
    BY <1>1, <1>2, <1>5, <1>6 DEF Tracked, OwnSlots, OwnHands, Own, history
  <1>13. OwnHands'
    BY <1>1, <1>2, <1>3 DEF Tracked, OwnHands, Own, history
  <1>14. Dooms'
    <2>1. Doomed => proc.tool > proc.signalled
      BY <1>1, <1>3, <1>5 DEF Tracked, Dooms, Starting
    <2>2. \A u \in Threads : proc'.pc[u] \notin Starting
      BY <1>3, <1>5 DEF Starting
    <2>3. QED
      BY <1>2, <1>6, <2>1, <2>2 DEF Dooms, Doomed, SameSelf
  <1>15. ASSUME ~Doomed PROVE Settled'
    <2> USE DEF SameActive, SameSaved
    <2>1. Settled
      BY <1>15 DEF InOrder, Follows
    <2>2. \A u \in Threads : Others(u)' = Others(u)
      BY <1>1, <1>2, SameOthers DEF Steps
    <2>3. ASSUME NEW u \in Threads \ {t} PROVE proc.pc[u] \notin Leaving \cup {"publish"}
      <3>1. CASE proc.pc[u] = "publish"
        <4>1. proc.at[u] \in Tracers
          BY <1>1, <3>1 DEF Discipline, SelfInCall, InCall, Steps
        <4>2. QED
          BY <1>5, <2>1, <3>1, <4>1 DEF Settled, PublishAlone
      <3>2. CASE proc.pc[u] \in Leaving
        <4>1. proc.at[u] \in Tracers /\ t \in Others(u)
          BY <1>1, <1>3, <2>3, <3>2 DEF Discipline, SelfInCall, InCall, Steps, Leaving, Others
        <4>2. QED
          BY <1>5, <2>1, <3>2, <4>1 DEF Settled, LeavingAlone
      <3>3. QED
        BY <3>1, <3>2
    <2>4. \A u \in Threads : proc'.pc[u] \notin Leaving
      BY <1>3, <2>3 DEF Leaving
    <2>5. PublishAlone'
      BY <1>3, <1>4, <1>5, <1>6, <2>3 DEF PublishAlone, Leaving
    <2>6. ToolUsed'
      BY <1>2, <1>4, <1>6 DEF ToolUsed
    <2>7. ActiveSlot'
      BY <1>3, <1>6 DEF ActiveSlot
    <2>8. LeavingAlone' /\ ActiveCleared' /\ Drained'
      BY <2>4 DEF LeavingAlone, ActiveCleared, Drained, Leaving, Cleared
    <2>9. Stale'
      BY <1>2, <1>5, <2>1 DEF Settled, Stale
    <2>10. InnermostRuns'
      BY <1>3 DEF InnermostRuns
    <2>11. OneEntered'
      <3>1. ASSUME proc.entered # <<>>, NEW u \in Threads, Others(u) # {}, proc'.pc[u] # "gone"
            PROVE  FALSE
        <4>1. proc.pc[u] # "gone" /\ proc.pc[t] # "gone"
          BY <1>3, <3>1
        <4>2. /\ proc.slot[proc.entered[1]] # 0 /\ proc.active = proc.entered[1] /\ Len(proc.entered) = 1
          BY <2>1, <3>1, <4>1 DEF Settled, OneEntered
        <4>3. proc.entered[1] \in Tracers
          BY <1>1, <4>2 DEF Process
        <4>4. QED
          BY <1>5, <4>2, <4>3
      <3>2. QED
        BY <1>2, <2>2, <3>1 DEF OneEntered
    <2>12. QED
      BY <2>5, <2>6, <2>7, <2>8, <2>9, <2>10, <2>11 DEF Settled
  <1>16. Doomed' = Doomed
    BY <1>2 DEF Doomed, SameSelf
  <1>17. QED
    BY <1>7, <1>8, <1>9, <1>10, <1>11, <1>12, <1>13, <1>14, <1>15, <1>16 DEF Tracked, Follows

\* ACTIVE names the tracer, which is innermost now.
LEMMA PublishFollows ==
  ASSUME InOrder, NEW t \in Threads, Publish(t)
  PROVE  Follows'
  <1> USE ProcessFields
  <1>1. proc \in Process /\ Tracked /\ Discipline
    BY DEF InOrder, IInv, TypeOK, Follows
  <1>2. /\ CallStep(t, "publish", "idle") /\ SelfIs(t, NoTracer)
        /\ SameSelf /\ SameRuns /\ SameTool /\ SameSaved /\ UNCHANGED history
        /\ proc'.active = proc.at[t] /\ proc'.entered = Append(proc.entered, proc.at[t])
    BY <1>1, PublishDoes
  <1>3. /\ proc'.pc[t] = "idle" /\ proc.pc[t] = "publish"
        /\ \A u \in Threads \ {t} : proc'.pc[u] = proc.pc[u] /\ proc'.at[u] = proc.at[u]
    BY <1>1, <1>2 DEF CallStep, SelfIs
  <1>4. proc.at[t] \in Tracers
    BY <1>1, <1>3 DEF Discipline, SelfInCall, InCall, Steps
  <1>5. Tracked'
    BY <1>2, QuietTracks DEF Steps, Starting, Forked
  <1>6. ASSUME ~Doomed PROVE Settled'
    <2> USE DEF SameSaved, SameRuns, SameTool
    <2>1. Settled
      BY <1>6 DEF InOrder, Follows
    <2>2. \A u \in Threads : Others(u)' = Others(u)
      BY <1>1, <1>2, SameOthers DEF Steps
    <2>3. /\ proc.slot[proc.at[t]] # 0
          /\ \A u \in Threads \ {t} : proc.pc[u] \notin Leaving \cup {"publish"}
      BY <1>3, <2>1 DEF Settled, PublishAlone
    <2>4. \A tr \in Tracers : proc.slot[tr] # 0 => tr = proc.at[t]
      BY <1>1, <1>4, <2>3 DEF Tracked, OneSlot
    <2>5. \A u \in Threads : proc.pc[u] \notin Starting
      BY <1>1, <1>4, <2>3 DEF Tracked, StartingAlone
    <2>6. \A u \in Threads : proc'.pc[u] \notin Starting \cup Leaving \cup {"publish"}
      BY <1>3, <2>3, <2>5 DEF Leaving, Starting
    <2>7. PublishAlone' /\ LeavingAlone' /\ ActiveCleared' /\ Drained'
      BY <2>6 DEF PublishAlone, LeavingAlone, ActiveCleared, Drained, Leaving, Cleared
    <2>8. ToolUsed'
      BY <1>2, <2>1, <2>5 DEF Settled, ToolUsed
    <2>9. ActiveSlot' /\ Stale'
      BY <1>2, <2>3, <2>4 DEF ActiveSlot, Stale
    <2>10. /\ proc'.entered # <<>> /\ proc'.entered[Len(proc'.entered)] = proc.at[t]
           /\ proc.entered = <<>> => Len(proc'.entered) = 1 /\ proc'.entered[1] = proc.at[t]
      <3>1. proc.entered \in Seq(Tracers)
        BY <1>1 DEF Process
      <3>2. ASSUME NEW s \in Seq(Tracers), NEW x \in Tracers
            PROVE  /\ Append(s, x) # <<>> /\ Append(s, x)[Len(Append(s, x))] = x
                   /\ s = <<>> => Len(Append(s, x)) = 1 /\ Append(s, x)[1] = x
        <4>1. /\ Len(Append(s, x)) = Len(s) + 1 /\ Append(s, x)[Len(s) + 1] = x
              /\ Append(s, x) \in Seq(Tracers) /\ Len(s) \in Nat
          OBVIOUS
        <4>2. s = <<>> => Len(s) = 0
          OBVIOUS
        <4>3. Append(s, x) # <<>>
          BY <4>1
        <4>4. QED
          BY <4>1, <4>2, <4>3
      <3>3. proc'.entered = Append(proc.entered, proc.at[t])
        BY <1>2
      <3>4. QED
        BY <1>4, <3>1, <3>2, <3>3, SMTT(30)
    <2>11. InnermostRuns'
      BY <1>2, <2>4, <2>10 DEF InnermostRuns
    <2>12. OneEntered'
      <3>1. ASSUME NEW u \in Threads, Others(u) # {}, proc'.pc[u] # "gone"
            PROVE  proc.entered = <<>>
        <4>1. Others(t) # {} /\ proc.pc[t] # "gone"
          BY <1>3, <3>1 DEF Others
        <4>2. QED
          BY <1>3, <2>1, <4>1 DEF Settled, OneEntered
      <3>2. QED
        BY <1>2, <2>2, <2>3, <2>6, <2>10, <3>1 DEF OneEntered
    <2>13. QED
      BY <2>7, <2>8, <2>9, <2>11, <2>12 DEF Settled
  <1>7. Doomed' = Doomed
    BY <1>2 DEF Doomed, SameSelf
  <1>8. QED
    BY <1>5, <1>6, <1>7 DEF Follows

LEMMA EntersFollow ==
  ASSUME InOrder, NEW t \in Threads, Enters(t)
  PROVE  Follows'
  BY EntersQuietly, BeginFollows, InstallFollows, PublishFollows DEF Enters

---------------------------------------------------------------------------
(* Follows is kept by leaving a tracer.                                     *)

LEMMA LeavesQuietly ==
  ASSUME InOrder, NEW t \in Threads, LockToHandBack(t) \/ HandBack(t) \/ StopAdvertising(t) \/ Flush(t)
  PROVE  Follows'
  <1> USE DEF Starting, Leaving, Cleared, Forked
  <1>1. proc \in Process
    BY DEF InOrder, IInv, TypeOK
  <1>2. \A from, to \in Leaving \cup Finishing : from \in Steps \ {"gone"} /\ to \in Steps \ {"gone"}
    BY DEF Steps, Finishing
  <1>3. CASE LockToHandBack(t)
    <2>1. PICK to \in {"stop", "handing"} : CallStep(t, "handBack", to) /\ (to = "stop" => proc.saved = "none")
      BY <1>1, <1>3, LockToHandBackDoes
    <2>2. SelfIs(t, proc.at[t]) /\ SameTracing /\ proc'.saved = proc.saved
      BY <1>1, <1>3, LockToHandBackDoes DEF SameSaved
    <2>3. QED
      BY <1>2, <2>1, <2>2, QuietFollows
  <1>4. CASE HandBack(t)
    <2>1. CallStep(t, "handing", "stop") /\ SelfIs(t, proc.at[t]) /\ SameTracing /\ proc'.saved = "none"
      BY <1>1, <1>4, HandBackDoes
    <2>2. QED
      BY <1>2, <2>1, QuietFollows
  <1>5. CASE StopAdvertising(t)
    <2>1. CallStep(t, "stop", "take") /\ SelfIs(t, proc.at[t]) /\ SameTracing /\ SameSaved
      BY <1>1, <1>5, StopAdvertisingDoes
    <2>2. QED
      BY <1>2, <2>1, QuietFollows DEF SameSaved
  <1>6. CASE Flush(t)
    <2>1. CallStep(t, "flush", "join") /\ SelfIs(t, proc.at[t]) /\ SameTracing /\ SameSaved
      BY <1>1, <1>6, FlushDoes
    <2>2. QED
      BY <1>2, <2>1, QuietFollows DEF SameSaved, Finishing
  <1>7. QED
    BY <1>3, <1>4, <1>5, <1>6

\* What is left is the innermost tracer, and nobody else leaves one.
LEMMA CallExitFollows ==
  ASSUME InOrder, NEW t \in Threads, CallExit(t)
  PROVE  Follows'
  <1> USE ProcessFields
  <1>1. proc \in Process /\ Discipline
    BY DEF InOrder, IInv, TypeOK
  <1>2. /\ CallStep(t, "idle", "clear") /\ SelfIs(t, proc.entered[Len(proc.entered)]) /\ proc.entered # <<>>
        /\ SameSelf /\ SameRuns /\ SameTool /\ SameSaved /\ UNCHANGED history
        /\ proc'.active = proc.active /\ proc'.entered = SubSeq(proc.entered, 1, Len(proc.entered) - 1)
    BY <1>1, CallExitDoes
  <1>3. /\ proc'.pc[t] = "clear" /\ proc.pc[t] = "idle" /\ proc'.at[t] = proc.entered[Len(proc.entered)]
        /\ \A u \in Threads \ {t} : proc'.pc[u] = proc.pc[u] /\ proc'.at[u] = proc.at[u]
    BY <1>1, <1>2 DEF CallStep, SelfIs
  <1>4. Tracked'
    BY <1>2, QuietTracks DEF Steps, Starting, Forked
  <1>5. ASSUME ~Doomed PROVE Settled'
    <2> USE DEF SameSaved, SameRuns, SameTool
    <2>1. Settled
      BY <1>5 DEF InOrder, Follows
    <2>2. \A u \in Threads : Others(u)' = Others(u)
      BY <1>1, <1>2, SameOthers DEF Steps
    <2>3. ASSUME NEW u \in Threads PROVE proc.pc[u] \notin Starting \cup Leaving \cup {"publish"}
      <3>1. CASE u = t
        BY <1>3, <3>1 DEF Starting, Leaving
      <3>2. CASE u # t
        <4>1. t \in Others(u)
          BY <1>3, <3>2 DEF Others
        <4>2. proc.pc[u] # "gone" => proc.pc[u] \notin Starting \cup Leaving \cup {"publish"}
          BY <1>2, <2>1, <4>1 DEF Settled, OneEntered
        <4>3. QED
          BY <4>2 DEF Starting, Leaving
      <3>3. QED
        BY <3>1, <3>2
    <2>4. \A tr \in Tracers : proc.slot[tr] # 0 => proc'.at[t] = tr
      BY <1>3, <2>1, <2>3 DEF Settled, InnermostRuns
    <2>5. \A u \in Threads : proc'.pc[u] \in Leaving => u = t
      BY <1>3, <2>3
    <2>6. Others(t) # {} =>
             /\ Len(proc.entered) = 1 /\ proc.slot[proc.entered[1]] # 0 /\ proc.active = proc.entered[1]
      BY <1>2, <1>3, <2>1 DEF Settled, OneEntered
    <2>7. PublishAlone'
      BY <1>3, <2>3 DEF PublishAlone, Leaving
    <2>8. ToolUsed'
      BY <1>2, <2>1, <2>3 DEF Settled, ToolUsed
    <2>9. ActiveSlot'
      BY <1>2, <2>1, <2>3 DEF Settled, ActiveSlot, Cleared, Leaving
    <2>10. LeavingAlone'
      <3>1. ASSUME NEW u \in Others(t) PROVE proc'.pc[u] \notin Leaving /\ proc.slot[proc'.at[t]] # 0
        <4>1. Len(proc.entered) = 1 /\ proc.slot[proc.entered[1]] # 0
          BY <2>6, <3>1
        <4>2. QED
          BY <1>3, <2>5, <4>1 DEF Others
      <3>2. QED
        BY <1>2, <2>2, <2>4, <2>5, <3>1 DEF LeavingAlone
    <2>11. ActiveCleared' /\ Drained'
      BY <1>3, <2>5 DEF ActiveCleared, Drained, Leaving, Cleared
    <2>12. Stale'
      BY <1>2, <2>1 DEF Settled, Stale
    <2>13. InnermostRuns'
      BY <1>3 DEF InnermostRuns, Leaving
    <2>14. OneEntered'
      <3>1. Others(t) # {} => proc'.entered = <<>>
        BY <1>1, <1>2, <2>6 DEF Process
      <3>2. \A u \in Threads : Others(u) # {} /\ proc'.pc[u] # "gone" => Others(t) # {}
        BY <1>3 DEF Others
      <3>3. QED
        BY <2>2, <3>1, <3>2 DEF OneEntered
    <2>15. QED
      BY <2>7, <2>8, <2>9, <2>10, <2>11, <2>12, <2>13, <2>14 DEF Settled
  <1>6. Doomed' = Doomed
    BY <1>2 DEF Doomed, SameSelf
  <1>7. QED
    BY <1>4, <1>5, <1>6 DEF Follows

LEMMA ClearFollows ==
  ASSUME InOrder, NEW t \in Threads, Clear(t)
  PROVE  Follows'
  <1> USE ProcessFields
  <1>1. proc \in Process /\ Discipline
    BY DEF InOrder, IInv, TypeOK
  <1>2. /\ CallStep(t, "clear", "handBack") /\ SelfIs(t, proc.at[t])
        /\ SameSelf /\ SameRuns /\ SameTool /\ SameSaved /\ UNCHANGED history
        /\ proc'.active = NoTracer /\ proc'.entered = proc.entered
    BY <1>1, ClearDoes
  <1>3. /\ proc'.pc[t] = "handBack" /\ proc.pc[t] = "clear" /\ proc'.at = proc.at
        /\ \A u \in Threads \ {t} : proc'.pc[u] = proc.pc[u]
    BY <1>1, <1>2 DEF CallStep, SelfIs
  <1>4. Tracked'
    BY <1>2, QuietTracks DEF Steps, Starting, Forked
  <1>5. ASSUME ~Doomed PROVE Settled'
    <2> USE DEF SameSaved, SameRuns, SameTool
    <2>1. Settled
      BY <1>5 DEF InOrder, Follows
    <2>2. \A u \in Threads : Others(u)' = Others(u)
      BY <1>1, <1>2, SameOthers DEF Steps
    <2>3. /\ \A tr \in Tracers : proc.slot[tr] # 0 => proc.at[t] = tr
          /\ \A u \in Others(t) : proc.pc[u] \notin Leaving
      BY <1>3, <2>1 DEF Settled, LeavingAlone, Leaving
    <2>4. \A u \in Threads : proc'.pc[u] \in Leaving <=> proc.pc[u] \in Leaving
      BY <1>3 DEF Leaving
    <2>5. PublishAlone'
      BY <1>2, <1>3, <2>1, <2>4 DEF Settled, PublishAlone
    <2>6. ToolUsed'
      BY <1>2, <1>3, <2>1 DEF Settled, ToolUsed, Starting
    <2>7. ActiveSlot'
      BY <1>2, <1>3, <2>3 DEF ActiveSlot, Cleared
    <2>8. LeavingAlone'
      BY <1>2, <1>3, <2>1, <2>2, <2>4 DEF Settled, LeavingAlone, Others
    <2>9. ActiveCleared' /\ Stale'
      BY <1>2, TracerAssumption DEF ActiveCleared, Stale
    <2>10. Drained'
      BY <1>2, <1>3, <2>1 DEF Settled, Drained
    <2>11. InnermostRuns'
      BY <1>3 DEF InnermostRuns, Leaving
    <2>12. OneEntered'
      <3>1. ASSUME proc.entered # <<>>, NEW u \in Threads, Others(u) # {}, proc'.pc[u] # "gone"
            PROVE  FALSE
        <4>1. Others(t) # {} /\ proc.pc[t] # "gone"
          BY <1>3, <3>1 DEF Others
        <4>2. QED
          BY <1>3, <2>1, <3>1, <4>1 DEF Settled, OneEntered, Leaving
      <3>2. QED
        BY <1>2, <2>2, <3>1 DEF OneEntered
    <2>13. QED
      BY <2>5, <2>6, <2>7, <2>8, <2>9, <2>10, <2>11, <2>12 DEF Settled
  <1>6. Doomed' = Doomed
    BY <1>2 DEF Doomed, SameSelf
  <1>7. QED
    BY <1>4, <1>5, <1>6 DEF Follows
\* The tracer that is left has no run: the handler has ended it, or a fork's child
\* forgot it.
LEMMA TakeNothingFollows ==
  ASSUME InOrder, NEW t \in Threads, Take(t), proc.slot[proc.at[t]] = 0
  PROVE  Follows'
  <1> USE ProcessFields
  <1>1. proc \in Process /\ Discipline /\ Tracked
    BY DEF InOrder, IInv, TypeOK, Follows
  <1>2. proc.at[t] \in Tracers
    BY <1>1 DEF Take, At, Discipline, SelfInCall, InCall, Steps
  <1>3. CallStep(t, "take", "idle") /\ SelfIs(t, NoTracer) /\ SameTracing /\ SameSaved
    BY <1>1, <1>2, TakeDoes
  <1>4. /\ proc'.pc[t] = "idle" /\ proc.pc[t] = "take"
        /\ \A u \in Threads \ {t} : proc'.pc[u] = proc.pc[u] /\ proc'.at[u] = proc.at[u]
    BY <1>1, <1>3 DEF CallStep, SelfIs
  <1>5. Tracked'
    BY <1>3, QuietTracks DEF Steps, Starting, Forked, SameTracing
  <1>6. ASSUME ~Doomed PROVE Settled'
    <2> USE DEF SameSaved, SameTracing, SameRuns, SameTool, SameActive
    <2>1. Settled
      BY <1>6 DEF InOrder, Follows
    <2>2. \A u \in Threads : Others(u)' = Others(u)
      BY <1>1, <1>3, SameOthers DEF Steps
    <2>3. \A tr \in Tracers : proc.slot[tr] = 0
      BY <1>4, <2>1 DEF Settled, LeavingAlone, Leaving
    <2>4. Others(t) = {}
      BY <1>4, <2>1 DEF Settled, LeavingAlone, Leaving
    <2>5. \A u \in Threads : proc'.pc[u] = IF u = t THEN "idle" ELSE "gone"
      BY <1>4, <2>4 DEF Others
    <2>6. PublishAlone' /\ LeavingAlone' /\ ActiveCleared' /\ Drained'
      BY <2>5 DEF PublishAlone, LeavingAlone, ActiveCleared, Drained, Leaving, Cleared
    <2>7. ToolUsed'
      BY <1>3, <1>4, <2>1 DEF Settled, ToolUsed, Starting
    <2>8. ActiveSlot' /\ InnermostRuns'
      BY <1>3, <2>3 DEF ActiveSlot, InnermostRuns
    <2>9. Stale'
      BY <1>3, <2>1 DEF Settled, Stale
    <2>10. OneEntered'
      BY <2>2, <2>4, <2>5 DEF OneEntered
    <2>11. QED
      BY <2>6, <2>7, <2>8, <2>9, <2>10 DEF Settled
  <1>7. Doomed' = Doomed
    BY <1>3 DEF Doomed, SameTracing, SameSelf
  <1>8. QED
    BY <1>5, <1>6, <1>7 DEF Follows

\* The run goes from its tracer onto the stack, and the tool is free.
LEMMA TakeFollows ==
  ASSUME InOrder, NEW t \in Threads, Take(t), proc.slot[proc.at[t]] # 0
  PROVE  Follows'
  <1> USE ProcessFields
  <1>1. proc \in Process /\ Discipline /\ Tracked
    BY DEF InOrder, IInv, TypeOK, Follows
  <1>2. proc.at[t] \in Tracers
    BY <1>1 DEF Take, At, Discipline, SelfInCall, InCall, Steps
  <1>3. /\ CallStep(t, "take", "flush") /\ SelfIs(t, proc.at[t])
        /\ SameSelf /\ SameActive /\ SameSaved /\ UNCHANGED history
        /\ proc'.slot = [proc.slot EXCEPT ![proc.at[t]] = 0]
        /\ proc'.hand = [proc.hand EXCEPT ![t] = proc.slot[proc.at[t]]]
        /\ proc'.tool = ToolWithout(proc.at[t])
    BY <1>1, <1>2, TakeDoes
  <1>4. /\ proc'.pc[t] = "flush" /\ proc.pc[t] = "take" /\ proc'.at = proc.at
        /\ \A u \in Threads \ {t} : proc'.pc[u] = proc.pc[u] /\ proc'.hand[u] = proc.hand[u]
        /\ proc'.hand[t] = proc.slot[proc.at[t]]
    BY <1>1, <1>3 DEF CallStep, SelfIs
  <1>5. \A u \in Threads : proc.pc[u] \notin Forked
    BY <1>4, NobodyForks DEF Bystanders, Forkers
  <1>6. proc'.tool = 0
    BY <1>1, <1>2, <1>3, <1>5 DEF Tracked, Monitored, ToolWithout
  <1>7. \A tr \in Tracers : tr # proc.at[t] => proc.slot[tr] = 0
    BY <1>1, <1>2 DEF Tracked, OneSlot
  <1>8. \A tr \in Tracers : proc'.slot[tr] = 0
    BY <1>1, <1>3, <1>7
  <1>9. \A u \in Threads : proc.pc[u] \notin Starting /\ proc'.pc[u] \notin Starting \cup Forked
    <2>1. \A u \in Threads : proc.pc[u] \notin Starting
      BY <1>1, <1>2 DEF Tracked, StartingAlone
    <2>2. QED
      BY <1>4, <1>5, <2>1 DEF Starting, Forked
  <1>10. OneSlot' /\ StartingAlone' /\ Monitored' /\ ForkedFree' /\ OwnSlots' /\ Dooms'
    BY <1>8, <1>9 DEF OneSlot, StartingAlone, Monitored, ForkedFree, OwnSlots, Dooms
  <1>11. proc.hand[t] = 0
    BY <1>4 DEF InOrder, Ordered, HandsEmpty, Starting, Finishing
  <1>12. Located'
    <2> SUFFICES ASSUME NEW r \in 1 .. Len(made), r > inherited
                 PROVE  \/ r \in finished \/ proc.dying = r
                        \/ \E u \in Threads : proc'.hand[u] = r
      BY <1>3 DEF Located, Own, SameSelf, history
    <2>1. r # 0
      OBVIOUS
    <2>2. ASSUME NEW tr \in Tracers, proc.slot[tr] = r PROVE proc'.hand[t] = r
      BY <1>4, <1>7, <2>1, <2>2
    <2>3. ASSUME NEW u \in Threads, proc.hand[u] = r PROVE proc'.hand[u] = r
      BY <1>4, <1>11, <2>1, <2>3
    <2>4. QED
      BY <1>1, <2>2, <2>3 DEF Tracked, Located, Own
  <1>13. OwnHands'
    <2>1. Own(proc.slot[proc.at[t]])
      <3>1. \A u \in Threads : proc.pc[u] # "inChild"
        BY <1>5 DEF Forked
      <3>2. QED
        BY <1>1, <1>2, <3>1 DEF Tracked, OwnSlots
    <2>2. QED
      BY <1>1, <1>3, <1>4, <2>1 DEF Tracked, OwnHands, Own, history
  <1>14. ASSUME ~Doomed PROVE Settled'
    <2> USE DEF SameSaved, SameActive
    <2>1. Settled
      BY <1>14 DEF InOrder, Follows
    <2>2. \A u \in Threads : Others(u)' = Others(u)
      BY <1>1, <1>3, SameOthers DEF Steps
    <2>3. \A u \in Threads \ {t} : proc.pc[u] \notin Leaving \cup {"publish"}
      <3>1. \A u \in Threads \ {t} : proc.pc[u] # "publish"
        BY <1>4, <2>1 DEF Settled, PublishAlone, Leaving
      <3>2. \A u \in Threads \ {t} : proc.pc[u] \in Leaving => u \in Others(t)
        BY DEF Others, Leaving
      <3>3. QED
        BY <1>4, <2>1, <3>1, <3>2 DEF Settled, LeavingAlone, Leaving
    <2>4. \A u \in Threads : proc'.pc[u] \notin Leaving \cup {"publish"}
      BY <1>4, <2>3 DEF Leaving
    <2>5. PublishAlone' /\ LeavingAlone' /\ ActiveCleared' /\ Drained'
      BY <2>4 DEF PublishAlone, LeavingAlone, ActiveCleared, Drained, Leaving, Cleared
    <2>6. ToolUsed'
      BY <1>6 DEF ToolUsed
    <2>7. ActiveSlot' /\ InnermostRuns'
      BY <1>8 DEF ActiveSlot, InnermostRuns
    <2>8. Stale'
      <3>1. proc.active = NoTracer
        BY <1>4, <2>1 DEF Settled, ActiveCleared, Cleared
      <3>2. QED
        BY <1>3, <3>1, TracerAssumption DEF Stale
    <2>9. OneEntered'
      <3>1. ASSUME proc.entered # <<>>, NEW u \in Threads, Others(u) # {}, proc'.pc[u] # "gone"
            PROVE  FALSE
        <4>1. Others(t) # {} /\ proc.pc[t] # "gone"
          BY <1>4, <3>1 DEF Others
        <4>2. QED
          BY <1>4, <2>1, <3>1, <4>1 DEF Settled, OneEntered, Leaving
      <3>2. QED
        BY <1>3, <2>2, <3>1 DEF OneEntered
    <2>10. QED
      BY <2>5, <2>6, <2>7, <2>8, <2>9 DEF Settled
  <1>15. Doomed' = Doomed
    BY <1>3 DEF Doomed, SameSelf
  <1>16. QED
    BY <1>10, <1>12, <1>13, <1>14, <1>15 DEF Tracked, Follows

\* The run is finished.
LEMMA JoinFollows ==
  ASSUME InOrder, NEW t \in Threads, Join(t)
  PROVE  Follows'
  <1> USE ProcessFields
  <1>1. proc \in Process /\ Discipline /\ Tracked
    BY DEF InOrder, IInv, TypeOK, Follows
  <1>2. /\ CallStep(t, "join", "idle") /\ SelfIs(t, NoTracer)
        /\ SameSelf /\ SameTool /\ SameActive /\ SameSaved
        /\ proc'.slot = proc.slot /\ proc'.hand = [proc.hand EXCEPT ![t] = 0]
        /\ finished' = finished \cup {proc.hand[t]} /\ UNCHANGED <<made, inherited>>
    BY <1>1, JoinDoes
  <1>3. /\ proc'.pc[t] = "idle" /\ proc.pc[t] = "join" /\ proc'.hand[t] = 0
        /\ \A u \in Threads \ {t} : /\ proc'.pc[u] = proc.pc[u] /\ proc'.at[u] = proc.at[u]
                                    /\ proc'.hand[u] = proc.hand[u]
    BY <1>1, <1>2 DEF CallStep, SelfIs
  <1>4. /\ \A u \in Threads : proc'.pc[u] \in Starting <=> proc.pc[u] \in Starting
        /\ \A u \in Threads : proc'.pc[u] \in Leaving <=> proc.pc[u] \in Leaving
        /\ \A u \in Threads : proc'.pc[u] \in Cleared <=> proc.pc[u] \in Cleared
        /\ \A u \in Threads : proc'.pc[u] \in Forked <=> proc.pc[u] \in Forked
        /\ \A s \in {"publish", "inChild", "gone"} : \A u \in Threads : proc'.pc[u] = s <=> proc.pc[u] = s
        /\ \A u \in Threads : proc'.pc[u] \in {"stop", "take"} <=> proc.pc[u] \in {"stop", "take"}
    BY <1>3 DEF Starting, Leaving, Cleared, Forked
  <1>5. \A u \in Threads : proc.pc[u] \in Starting \cup Leaving \cup {"publish"} => u # t
    BY <1>3 DEF Starting, Leaving
  <1>6. OneSlot' /\ StartingAlone'
    BY <1>1, <1>2, <1>3, <1>4, <1>5 DEF Tracked, OneSlot, StartingAlone, SameTool
  <1>7. Monitored' /\ ForkedFree'
    BY <1>1, <1>2, <1>4 DEF Tracked, Monitored, ForkedFree, SameTool
  <1>8. Located'
    <2> SUFFICES ASSUME NEW r \in 1 .. Len(made), r > inherited
                 PROVE  \/ r \in finished' \/ proc.dying = r
                        \/ \E tr \in Tracers : proc.slot[tr] = r
                        \/ \E u \in Threads : proc'.hand[u] = r
      BY <1>2 DEF Located, Own, SameSelf
    <2>1. ASSUME NEW u \in Threads, proc.hand[u] = r PROVE r \in finished' \/ proc'.hand[u] = r
      BY <1>2, <1>3, <2>1
    <2>2. QED
      BY <1>1, <1>2, <2>1 DEF Tracked, Located, Own
  <1>9. OwnSlots' /\ OwnHands'
    BY <1>1, <1>2, <1>3, <1>4 DEF Tracked, OwnSlots, OwnHands, Own
  <1>10. Dooms'
    BY <1>1, <1>2, <1>3, <1>4, <1>5 DEF Tracked, Dooms, Doomed, SameSelf
  <1>11. ASSUME ~Doomed PROVE Settled'
    <2> USE DEF SameSaved, SameActive, SameTool
    <2>1. Settled
      BY <1>11 DEF InOrder, Follows
    <2>2. \A u \in Threads : Others(u)' = Others(u)
      BY <1>1, <1>2, SameOthers DEF Steps
    <2>3. PublishAlone'
      BY <1>2, <1>3, <1>4, <1>5, <2>1 DEF Settled, PublishAlone
    <2>4. ToolUsed'
      BY <1>2, <1>4, <2>1 DEF Settled, ToolUsed
    <2>5. ActiveSlot'
      BY <1>2, <1>3, <1>4, <2>1 DEF Settled, ActiveSlot, Cleared
    <2>6. LeavingAlone'
      BY <1>2, <1>3, <1>4, <1>5, <2>1, <2>2 DEF Settled, LeavingAlone, Others
    <2>7. ActiveCleared' /\ Stale'
      BY <1>2, <1>4, <2>1 DEF Settled, ActiveCleared, Stale
    <2>8. Drained'
      BY <1>2, <1>3, <1>4, <2>1 DEF Settled, Drained
    <2>9. InnermostRuns'
      BY <1>2, <1>4, <2>1 DEF Settled, InnermostRuns
    <2>10. OneEntered'
      BY <1>2, <1>4, <2>1, <2>2 DEF Settled, OneEntered
    <2>11. QED
      BY <2>3, <2>4, <2>5, <2>6, <2>7, <2>8, <2>9, <2>10 DEF Settled
  <1>12. Doomed' = Doomed
    BY <1>2 DEF Doomed, SameSelf
  <1>13. QED
    BY <1>6, <1>7, <1>8, <1>9, <1>10, <1>11, <1>12 DEF Tracked, Follows

LEMMA LeavesFollow ==
  ASSUME InOrder, NEW t \in Threads, Leaves(t)
  PROVE  Follows'
  BY LeavesQuietly, CallExitFollows, ClearFollows, TakeNothingFollows, TakeFollows, JoinFollows DEF Leaves

---------------------------------------------------------------------------
(* Follows is kept by forks.                                                *)

\* Around a fork nobody else does anything, and no handler runs.
LEMMA ForkerAlone ==
  ASSUME InOrder, NEW t \in Threads, Runs(t), proc.pc[t] \in Forkers \cup {"inChild"}
  PROVE  /\ \A u \in Threads \ {t} : proc.pc[u] \in Bystanders
         /\ \A u \in Threads : proc.pc[u] \notin Starting \cup Leaving \cup {"publish"}
         /\ proc.handler = "none" /\ Settled
  <1>1. \A u \in Threads \ {t} : proc.pc[u] \in Bystanders
    BY DEF InOrder, Known, ForksAlone, Ordered, ChildAlone, Others, Bystanders
  <1>2. proc.handler = "none"
    <2>1. CASE proc.pc[t] \in Forkers
      BY <2>1 DEF InOrder, Undisturbed, ForkAlone, Runs
    <2>2. CASE proc.pc[t] = "inChild"
      BY <2>2 DEF InOrder, Ordered, ChildAlone, Runs
    <2>3. QED
      BY <2>1, <2>2
  <1>3. QED
    BY <1>1, <1>2 DEF InOrder, Follows, Doomed, Bystanders, Forkers, Starting, Leaving

\* Then ACTIVE leads to the run, if there is one.
LEMMA ForkerFinds ==
  ASSUME InOrder, NEW t \in Threads, Runs(t), proc.pc[t] \in Forkers \cup {"inChild"}
  PROVE  /\ \A tr \in Tracers : proc.slot[tr] # 0 => tr = proc.active
         /\ proc.tool # 0 => ActiveRuns /\ proc.tool = proc.slot[proc.active]
  <1>1. /\ \A u \in Threads : proc.pc[u] \notin Starting \cup Leaving \cup {"publish"}
        /\ Settled
    BY ForkerAlone
  <1>2. \A tr \in Tracers : proc.slot[tr] # 0 => tr = proc.active
    BY <1>1 DEF Settled, ActiveSlot, Leaving, Cleared
  <1>3. QED
    BY <1>1, <1>2, TracerAssumption DEF Settled, ToolUsed, ActiveRuns

LEMMA ForksQuietly ==
  ASSUME InOrder, NEW t \in Threads, CallFork(t) \/ ForkReturns(t)
  PROVE  Follows'
  <1> USE DEF Starting, Leaving, Cleared, Forked, Steps
  <1>1. proc \in Process
    BY DEF InOrder, IInv, TypeOK
  <1>2. ~proc.hooks => proc.tool = 0 /\ \A tr \in Tracers : proc.slot[tr] = 0
    BY DEF InOrder, Ordered, Hooked
  <1>3. CASE CallFork(t)
    <2>1. PICK to \in {"beforeFork", "forking"} : CallStep(t, "idle", to) /\ (to = "forking" => ~proc.hooks)
      BY <1>1, <1>3, CallForkDoes
    <2>2. SelfIs(t, proc.at[t]) /\ SameTracing /\ SameSaved
      BY <1>1, <1>3, CallForkDoes
    <2>3. QED
      BY <1>2, <2>1, <2>2, QuietFollows DEF SameSaved
  <1>4. CASE ForkReturns(t)
    <2>1. PICK to \in {"inParent", "idle"} : CallStep(t, "forking", to) /\ (to = "idle" => ~proc.hooks)
      BY <1>1, <1>4, ForkReturnsDoes
    <2>2. SelfIs(t, proc.at[t]) /\ SameTracing /\ SameSaved
      BY <1>1, <1>4, ForkReturnsDoes
    <2>3. QED
      BY <1>2, <2>1, <2>2, QuietFollows DEF SameSaved
  <1>5. QED
    BY <1>3, <1>4

\* The hooks take the tool from the run before a fork and give it back after it.
LEMMA HooksFollow ==
  ASSUME InOrder, NEW t \in Threads, BeforeFork(t) \/ AfterForkInParent(t)
  PROVE  Follows'
  <1> USE ProcessFields
  <1>1. proc \in Process /\ Discipline /\ Tracked
    BY DEF InOrder, IInv, TypeOK, Follows
  <1>2. PICK from \in {"beforeFork", "inParent"}, to \in {"forking", "idle"} :
          /\ CallStep(t, from, to) /\ SelfIs(t, proc.at[t])
          /\ SameSelf /\ SameRuns /\ SameActive /\ SameSaved /\ UNCHANGED history
          /\ to = "forking" <=> BeforeFork(t) /\ from = "beforeFork"
    <2>1. CASE BeforeFork(t)
      BY <1>1, <2>1, BeforeForkDoes
    <2>2. CASE ~BeforeFork(t)
      BY <1>1, <2>2, AfterForkInParentDoes
    <2>3. QED
      BY <2>1, <2>2
  <1>3. /\ proc'.pc[t] = to /\ proc.pc[t] = from /\ proc'.at = proc.at
        /\ \A u \in Threads \ {t} : proc'.pc[u] = proc.pc[u]
    BY <1>1, <1>2 DEF CallStep, SelfIs
  <1>4. /\ \A u \in Threads \ {t} : proc.pc[u] \in Bystanders
        /\ \A u \in Threads : proc.pc[u] \notin Starting \cup Leaving \cup {"publish"}
        /\ proc.handler = "none" /\ Settled
    BY <1>2, <1>3, ForkerAlone DEF Forkers, CallStep
  <1>5. /\ \A tr \in Tracers : proc.slot[tr] # 0 => tr = proc.active
        /\ proc.tool # 0 => ActiveRuns /\ proc.tool = proc.slot[proc.active]
    BY <1>2, <1>3, ForkerFinds DEF Forkers, CallStep
  <1>6. \A u \in Threads : proc'.pc[u] \notin Starting \cup Leaving \cup {"publish", "inChild"}
    BY <1>3, <1>4 DEF Starting, Leaving, Bystanders
  <1>7. /\ to = "forking" => proc'.tool = 0
        /\ to # "forking" =>
             \/ /\ ActiveRuns /\ proc'.tool = proc.slot[proc.active]
                /\ proc'.monitored = proc.monitored \cup {proc.active}
             \/ ~ActiveRuns /\ proc'.tool = 0
    <2>1. CASE to = "forking"
      <3>1. proc'.tool = IF ActiveRuns THEN ToolWithout(proc.active) ELSE proc.tool
        BY <1>1, <1>2, <2>1, BeforeForkDoes
      <3>2. ActiveRuns => proc.active \in proc.monitored
        <4>1. \A u \in Threads : proc.pc[u] \notin Forked
          BY <1>2, <1>3, <1>4, <2>1 DEF Forked, Bystanders
        <4>2. QED
          BY <1>1, <4>1 DEF Tracked, Monitored, ActiveRuns
      <3>3. QED
        BY <1>5, <2>1, <3>1, <3>2 DEF ToolWithout
    <2>2. CASE to # "forking"
      <3>1. AfterForkInParent(t)
        <4>1. BeforeFork(t) => proc.pc[t] = "beforeFork" /\ proc'.pc[t] = "forking"
          BY <1>1, BeforeForkDoes DEF CallStep
        <4>2. QED
          BY <1>3, <2>2, <4>1
      <3>2. proc.pc[t] = "inParent"
        BY <3>1 DEF AfterForkInParent, At
      <3>3. proc.tool = 0
        BY <1>1, <3>2 DEF Tracked, ForkedFree, Forked
      <3>4. QED
        BY <1>1, <2>2, <3>1, <3>3, AfterForkInParentDoes DEF ToolIsFree
    <2>3. QED
      BY <2>1, <2>2
  <1>8. OneSlot' /\ OwnHands' /\ Located'
    BY <1>1, <1>2 DEF Tracked, OneSlot, OwnHands, Own, Located, SameRuns, SameSelf, history
  <1>9. StartingAlone' /\ Dooms'
    BY <1>2, <1>4, <1>6 DEF StartingAlone, Dooms, Doomed, SameSelf
  <1>10. Monitored'
    <2>1. CASE to = "forking"
      BY <1>3, <2>1 DEF Monitored, Forked
    <2>2. CASE to # "forking"
      BY <1>2, <1>5, <1>7, <2>2, TracerAssumption DEF Monitored, SameRuns, ActiveRuns
    <2>3. QED
      BY <2>1, <2>2
  <1>11. ForkedFree'
    BY <1>2, <1>3, <1>4, <1>7 DEF ForkedFree, Forked, Bystanders
  <1>12. OwnSlots'
    <2>1. \A u \in Threads : proc.pc[u] # "inChild"
      BY <1>2, <1>3, <1>4 DEF Bystanders
    <2>2. QED
      BY <1>1, <1>2, <2>1 DEF Tracked, OwnSlots, Own, SameRuns, history
  <1>13. Settled'
    <2> USE DEF SameActive, SameSaved, SameRuns
    <2>1. \A u \in Threads : Others(u)' = Others(u)
      BY <1>1, <1>2, SameOthers DEF Steps
    <2>2. PublishAlone' /\ LeavingAlone' /\ ActiveCleared' /\ Drained'
      BY <1>6 DEF PublishAlone, LeavingAlone, ActiveCleared, Drained, Leaving, Cleared
    <2>3. ToolUsed'
      BY <1>1, <1>2, <1>7 DEF ToolUsed, ActiveRuns
    <2>4. ActiveSlot' /\ Stale'
      BY <1>2, <1>4, <1>5 DEF ActiveSlot, Settled, Stale
    <2>5. InnermostRuns'
      BY <1>2, <1>4 DEF Settled, InnermostRuns
    <2>6. OneEntered'
      <3>1. \A u \in Threads : proc'.pc[u] # "gone" => proc.pc[u] # "gone"
        BY <1>2, <1>3
      <3>2. QED
        BY <1>2, <1>4, <1>6, <2>1, <3>1 DEF Settled, OneEntered
    <2>7. QED
      BY <2>2, <2>3, <2>4, <2>5, <2>6 DEF Settled
  <1>14. QED
    BY <1>8, <1>9, <1>10, <1>11, <1>12, <1>13 DEF Tracked, Follows
\* The child has its parent's slots, and nobody but the thread that forked.
LEMMA ForkFollows ==
  ASSUME InOrder, NEW t \in Threads, Fork(t)
  PROVE  Follows'
  <1>1. proc \in Process /\ Tracked /\ inherited \in Nat /\ Len(made) \in Nat
    BY DEF InOrder, IInv, TypeOK, Follows
  <1>2. /\ Runs(t) /\ proc.pc[t] = "forking" /\ proc'.handler = "none"
        /\ proc'.pc = [u \in Threads |-> IF u # t THEN "gone" ELSE IF proc.hooks THEN "inChild" ELSE "idle"]
        /\ proc'.hand = [u \in Threads |-> 0] /\ proc'.slot = proc.slot /\ SameTool /\ SameActive
        /\ inherited' = Len(made) /\ made' = made
    BY <1>1, ForkDoes
  <1>3. \A u \in Threads : /\ proc'.pc[u] = IF u # t THEN "gone" ELSE IF proc.hooks THEN "inChild" ELSE "idle"
                           /\ proc'.hand[u] = 0
    BY <1>2
  <1>4. /\ \A u \in Threads : proc.pc[u] \notin Starting \cup Leaving \cup {"publish"}
        /\ Settled
    BY <1>2, ForkerAlone DEF Forkers
  <1>5. /\ \A tr \in Tracers : proc.slot[tr] # 0 => tr = proc.active
        /\ ~proc.hooks => \A tr \in Tracers : proc.slot[tr] = 0
    BY <1>2, ForkerFinds DEF Forkers, InOrder, Ordered, Hooked
  <1>6. \A u \in Threads : proc'.pc[u] \notin Starting \cup Leaving \cup {"publish"}
    BY <1>3 DEF Starting, Leaving
  <1>7. proc'.tool = 0
    BY <1>1, <1>2 DEF Tracked, ForkedFree, Forked, SameTool
  <1>8. OneSlot' /\ StartingAlone' /\ OwnHands' /\ Dooms' /\ ForkedFree'
    BY <1>1, <1>2, <1>3, <1>6, <1>7 DEF Tracked, OneSlot, StartingAlone, OwnHands, Dooms, Doomed, ForkedFree
  <1>9. Located'
    BY <1>1, <1>2 DEF Located, Own
  <1>10. Monitored' /\ OwnSlots'
    <2>1. CASE proc.hooks
      <3>1. proc'.pc[t] = "inChild"
        BY <1>3, <2>1
      <3>2. QED
        BY <3>1 DEF Monitored, OwnSlots, Forked
    <2>2. CASE ~proc.hooks
      BY <1>2, <1>5, <2>2 DEF Monitored, OwnSlots
    <2>3. QED
      BY <2>1, <2>2
  <1>11. PublishAlone' /\ LeavingAlone' /\ ActiveCleared' /\ Drained'
    BY <1>6 DEF PublishAlone, LeavingAlone, ActiveCleared, Drained, Leaving, Cleared
  <1>12. ToolUsed' /\ ActiveSlot' /\ Stale'
    BY <1>2, <1>4, <1>5, <1>7 DEF ToolUsed, ActiveSlot, Settled, Stale, SameActive
  <1>13. InnermostRuns'
    BY <1>2, <1>4 DEF Settled, InnermostRuns, SameActive
  <1>14. OneEntered'
    <2>1. \A u \in Threads : proc'.pc[u] # "gone" => Others(u)' = {}
      BY <1>3 DEF Others
    <2>2. QED
      BY <2>1 DEF OneEntered
  <1>15. QED
    BY <1>8, <1>9, <1>10, <1>11, <1>12, <1>13, <1>14 DEF Tracked, Settled, Follows

\* The child forgets its parent's run, and has one of its own in its place or none.
LEMMA AfterForkInChildFollows ==
  ASSUME InOrder, NEW t \in Threads, AfterForkInChild(t)
  PROVE  Follows'
  <1> USE ProcessFields
  <1>1. proc \in Process /\ Tracked /\ made \in Seq(Tracers) /\ inherited \in Nat /\ Len(made) \in Nat
    BY DEF InOrder, IInv, TypeOK, Follows
  <1>2. /\ CallStep(t, "inChild", "idle") /\ SelfIs(t, proc.at[t])
        /\ SameSelf /\ SameActive /\ SameSaved
        /\ proc'.hand = proc.hand /\ UNCHANGED <<inherited, finished>>
    BY <1>1, AfterForkInChildDoes
  <1>3. /\ proc'.pc[t] = "idle" /\ proc.pc[t] = "inChild"
        /\ \A u \in Threads \ {t} : proc'.pc[u] = proc.pc[u]
    BY <1>1, <1>2 DEF CallStep
  <1>4. inherited = Len(made) /\ Others(t) = {}
    BY <1>3 DEF InOrder, Ordered, ChildAlone
  <1>5. \A u \in Threads : proc'.pc[u] = IF u = t THEN "idle" ELSE "gone"
    BY <1>3, <1>4 DEF Others
  <1>6. /\ \A u \in Threads : proc.pc[u] \notin Starting \cup Leaving \cup {"publish"}
        /\ proc.handler = "none" /\ Settled
    BY <1>2, <1>3, ForkerAlone DEF CallStep
  <1>7. \A tr \in Tracers : proc.slot[tr] # 0 => tr = proc.active
    BY <1>2, <1>3, ForkerFinds DEF CallStep
  <1>8. proc.tool = 0
    BY <1>1, <1>3 DEF Tracked, ForkedFree, Forked
  <1>9. \A u \in Threads : proc'.pc[u] \notin Starting \cup Leaving \cup Forked \cup {"publish"}
    BY <1>5 DEF Starting, Leaving, Forked
  \* With a run of its own, and without.
  <1>10. \/ /\ proc.active \in Subprocesses /\ proc.active \in Tracers
            /\ proc'.tool = NextRun /\ proc.active \in proc'.monitored
            /\ \A tr \in Tracers : proc'.slot[tr] = IF tr = proc.active THEN NextRun ELSE 0
            /\ Len(made') = NextRun /\ NextRun = inherited + 1
         \/ /\ proc.active \notin Subprocesses
            /\ proc'.tool = 0 /\ made' = made
            /\ \A tr \in Tracers : proc'.slot[tr] = 0
    <2>1. CASE proc.active \in Subprocesses
      <3>1. /\ proc'.slot = [proc.slot EXCEPT ![proc.active] = NextRun]
            /\ proc'.monitored = proc.monitored \cup {proc.active} /\ proc'.tool = NextRun
            /\ made' = Append(made, proc.active)
        BY <1>1, <1>8, <2>1, AfterForkInChildDoes
      <3>2. proc.active \in Tracers
        BY <2>1, TracerAssumption
      <3>3. Len(made') = NextRun /\ NextRun = inherited + 1
        BY <1>1, <1>4, <3>1, <3>2 DEF NextRun
      <3>4. \A tr \in Tracers : proc'.slot[tr] = IF tr = proc.active THEN NextRun ELSE 0
        BY <1>1, <1>7, <3>1
      <3>5. QED
        BY <2>1, <3>1, <3>2, <3>3, <3>4
    <2>2. CASE proc.active \notin Subprocesses
      <3>1. /\ proc'.slot = [proc.slot EXCEPT ![proc.active] = 0]
            /\ proc'.tool = proc.tool /\ made' = made
        BY <1>1, <2>2, AfterForkInChildDoes
      <3>2. \A tr \in Tracers : proc'.slot[tr] = 0
        BY <1>1, <1>7, <3>1
      <3>3. QED
        BY <1>8, <2>2, <3>1, <3>2
    <2>3. QED
      BY <2>1, <2>2
  <1>11. NextRun \in Nat /\ NextRun # 0
    BY <1>1 DEF NextRun
  <1>12. OneSlot' /\ Monitored'
    BY <1>10, <1>11 DEF OneSlot, Monitored
  <1>13. StartingAlone' /\ ForkedFree' /\ Dooms'
    BY <1>2, <1>6, <1>9 DEF StartingAlone, ForkedFree, Dooms, Doomed, SameSelf
  <1>14. Located'
    BY <1>1, <1>2, <1>4, <1>10, <1>11, SMTT(30) DEF Located, Own, NextRun
  <1>15. OwnSlots' /\ OwnHands'
    <2>1. proc.hand[t] = 0
      BY <1>3 DEF InOrder, Ordered, HandsEmpty, Starting, Finishing
    <2>2. OwnHands'
      BY <1>1, <1>2, <2>1 DEF Tracked, OwnHands, Own
    <2>3. OwnSlots'
      BY <1>1, <1>2, <1>10 DEF OwnSlots, Own
    <2>4. QED
      BY <2>2, <2>3
  <1>16. PublishAlone' /\ LeavingAlone' /\ ActiveCleared' /\ Drained'
    BY <1>9 DEF PublishAlone, LeavingAlone, ActiveCleared, Drained, Leaving, Cleared
  <1>17. ToolUsed' /\ ActiveSlot' /\ Stale'
    BY <1>2, <1>10, <1>11 DEF ToolUsed, ActiveSlot, Stale, SameActive
  <1>18. InnermostRuns'
    <2> SUFFICES ASSUME NEW tr \in Tracers, proc'.slot[tr] # 0
                 PROVE  proc.entered # <<>> /\ proc.entered[Len(proc.entered)] = tr
      BY <1>2 DEF InnermostRuns, SameActive
    <2>1. tr = proc.active /\ tr \in Subprocesses
      BY <1>10
    <2>2. proc.slot[tr] # 0
      BY <1>6, <2>1 DEF Settled, Stale
    <2>3. QED
      BY <1>6, <2>2 DEF Settled, InnermostRuns
  <1>19. OneEntered'
    <2>1. \A u \in Threads : proc'.pc[u] # "gone" => Others(u)' = {}
      BY <1>5 DEF Others
    <2>2. QED
      BY <2>1 DEF OneEntered
  <1>20. QED
    BY <1>12, <1>13, <1>14, <1>15, <1>16, <1>17, <1>18, <1>19 DEF Tracked, Settled, Follows

\* A process that has begun nothing.
NoRuns ==
    /\ proc.slot = [tr \in Tracers |-> 0] /\ proc.hand = [u \in Threads |-> 0] /\ proc.tool = 0
    /\ proc.handler = "none" /\ proc.entered = <<>> /\ proc.active = NoTracer
    /\ \A u \in Threads : proc.pc[u] \in {"gone", "idle", "begin"}
    /\ inherited = Len(made) /\ Len(made) \in Nat

LEMMA NoRunsFollow == NoRuns => Follows
  <1> SUFFICES ASSUME NoRuns PROVE Follows
    OBVIOUS
  <1> USE DEF NoRuns
  <1>1. \A u \in Threads : proc.pc[u] \notin Starting \cup Leaving \cup Forked \cup {"publish"}
    BY DEF Starting, Leaving, Forked
  <1>2. OneSlot /\ StartingAlone /\ Monitored /\ ForkedFree /\ OwnSlots /\ OwnHands /\ Dooms
    BY <1>1 DEF OneSlot, StartingAlone, Monitored, ForkedFree, OwnSlots, OwnHands, Dooms, Doomed
  <1>3. Located
    BY DEF Located, Own
  <1>4. PublishAlone /\ LeavingAlone /\ ActiveCleared /\ Drained
    BY <1>1 DEF PublishAlone, LeavingAlone, ActiveCleared, Drained, Leaving, Cleared
  <1>5. ToolUsed /\ ActiveSlot /\ Stale /\ InnermostRuns /\ OneEntered
    BY TracerAssumption DEF ToolUsed, ActiveSlot, Stale, InnermostRuns, OneEntered
  <1>6. QED
    BY <1>2, <1>3, <1>4, <1>5 DEF Tracked, Settled, Follows

LEMMA NoRunsFollowThen == NoRuns' => Follows'
  BY NoRunsFollow, PTL

LEMMA SpawnFollows ==
  ASSUME IInv, NEW t \in Threads, Spawn(t)
  PROVE  Follows'
  <1>1. proc \in Process /\ Len(made) \in Nat
    BY DEF IInv, TypeOK
  <1>2. proc.env # NoTracer /\ proc' = Fresh(t, proc.env) /\ inherited' = Len(made) /\ made' = made
    BY <1>1, SpawnDoes
  <1>3. /\ proc'.pc = [u \in Threads |-> IF u # t THEN "gone" ELSE "begin"]
        /\ proc'.hand = [u \in Threads |-> 0] /\ proc'.slot = [tr \in Tracers |-> 0]
        /\ proc'.handler = "none" /\ proc'.tool = 0
        /\ proc'.active = NoTracer /\ proc'.entered = <<>>
    BY <1>2, FreshHas
  <1>4. \A u \in Threads : proc'.pc[u] \in {"gone", "idle", "begin"}
    BY <1>3
  <1>5. QED
    BY <1>1, <1>2, <1>3, <1>4, NoRunsFollowThen DEF NoRuns

LEMMA ForksFollow ==
  ASSUME InOrder, NEW t \in Threads, Forks(t)
  PROVE  Follows'
  BY ForksQuietly, HooksFollow, ForkFollows, AfterForkInChildFollows, SpawnFollows DEF Forks, InOrder

---------------------------------------------------------------------------
(* Follows is kept by the signal handler, and by what runs beside the calls. *)

LEMMA IdlyFollows ==
  ASSUME InOrder, SameCalls, SameTracing, SameSaved
  PROVE  Follows'
  <1> USE DEF SameTracing
  <1>1. Dooms' /\ Doomed' = Doomed
    BY DEF InOrder, Follows, Tracked, Dooms, Doomed, SameCalls, SameSelf, SameRuns
  <1>2. Tracked'
    BY <1>1, IdlyTracks DEF SameSelf
  <1>3. ~Doomed => Settled'
    BY IdlySettles
  <1>4. QED
    BY <1>1, <1>2, <1>3 DEF Follows

LEMMA UsesFollow ==
  ASSUME InOrder, NEW t \in Threads, (\E tr \in Tracers : CallUse(t, tr)) \/ Use(t)
  PROVE  Follows'
  <1>1. proc \in Process
    BY DEF InOrder, IInv, TypeOK
  <1>2. PICK from, to \in {"idle", "use"} : CallStep(t, from, to)
    BY <1>1, CallUseDoes, UseDoes
  <1>3. PICK self : SelfIs(t, self)
    BY <1>1, CallUseDoes, UseDoes
  <1>4. SameTracing /\ SameSaved
    BY <1>1, CallUseDoes, UseDoes
  <1>5. QED
    BY <1>2, <1>3, <1>4, QuietFollows DEF Steps, Starting, Leaving, Cleared, Forked, SameSaved

\* Between LookUp and EndActive: what the handler does not find in ACTIVE is not
\* in another slot.
LEMMA EndsWhatRuns ==
  ASSUME InOrder, proc.handler = "ending"
  PROVE  /\ \A t \in Threads : proc.pc[t] \notin Starting
         /\ \A tr \in Tracers : proc.slot[tr] # 0 => tr = proc.active /\ ActiveFree
  <1>1. proc \in Process /\ Discipline /\ Settled
    BY DEF InOrder, IInv, TypeOK, Follows, Doomed
  <1>2. proc.gil = proc.main /\ proc.saved = "default" /\ Free("REPLACED_HANDLERS")
    BY <1>1 DEF Discipline, GilKept, InOrder, Ordered, HandlerBusy
  <1>3. \A t \in Threads : proc.pc[t] \notin KeepsGil
    BY <1>2 DEF InOrder, Ordered, GilHeld
  <1>4. \A t \in Threads : proc.pc[t] \notin HandlersHeld
    BY <1>1, <1>2, LocksDiffer DEF Discipline, Holders, Free
  <1>5. \A t \in Threads : proc.pc[t] \notin Starting
    BY <1>3, <1>4 DEF Starting, KeepsGil, HandlersHeld
  <1>6. ASSUME NEW tr \in Tracers, proc.slot[tr] # 0
        PROVE  tr = proc.active /\ ActiveFree
    <2>1. ASSUME NEW t \in Threads, proc.at[t] = tr, proc.pc[t] \in Cleared \cup {"publish"} PROVE FALSE
      <3>1. proc.pc[t] \in {"stop", "take"}
        BY <1>3, <1>4, <2>1 DEF Cleared, KeepsGil, HandlersHeld
      <3>2. QED
        BY <1>1, <1>2, <1>6, <2>1, <3>1 DEF Settled, Drained
    <2>2. tr = proc.active
      BY <1>1, <1>6, <2>1 DEF Settled, ActiveSlot
    <2>3. Free("ACTIVE")
      <3>1. ASSUME NEW u \in Threads, proc.owner["ACTIVE"] = u PROVE FALSE
        <4>1. "ACTIVE" # proc.at[u]
          BY <1>1, LocksDiffer, ProcessFields
        <4>2. QED
          BY <1>1, <3>1, <4>1, LocksDiffer DEF Discipline, Owners
      <3>2. proc.owner["ACTIVE"] \in Threads \cup {NoOne}
        BY LocksDiffer DEF InOrder, Undisturbed, NoneVanished
      <3>3. QED
        BY <3>1, <3>2 DEF Free
    <2>4. Free(tr)
      <3>1. ASSUME NEW u \in Threads, proc.owner[tr] = u PROVE FALSE
        <4>1. tr = proc.at[u] /\ proc.pc[u] \in Finishing
          BY <1>1, <3>1, LocksDiffer DEF Discipline, Owners, Finishing
        <4>2. QED
          BY <1>6, <4>1 DEF InOrder, Ordered, RunningHeld
      <3>2. proc.owner[tr] \in Threads \cup {NoOne}
        BY LocksDiffer DEF InOrder, Undisturbed, NoneVanished
      <3>3. QED
        BY <3>1, <3>2 DEF Free
    <2>5. QED
      BY <2>2, <2>3, <2>4 DEF ActiveFree
  <1>7. QED
    BY <1>5, <1>6

LEMMA EndActiveFollows ==
  ASSUME InOrder, EndActive
  PROVE  Follows'
  <1> USE ProcessFields
  <1>1. proc \in Process /\ Tracked
    BY DEF InOrder, IInv, TypeOK, Follows
  <1>2. /\ proc'.hand = proc.hand /\ SameCalls /\ UNCHANGED history
        /\ proc.handler = "ending" /\ Doomed'
    BY <1>1, EndActiveDoes DEF HandlerStep, Doomed
  <1>3. /\ \A t \in Threads : proc.pc[t] \notin Starting
        /\ \A tr \in Tracers : proc.slot[tr] # 0 => tr = proc.active /\ ActiveFree
    BY <1>2, EndsWhatRuns
  <1>4. CASE /\ ~(ActiveFree /\ ActiveRuns)
             /\ SameRuns /\ SameTool /\ SameOwner /\ proc'.dying = proc.dying
    <2>1. \A tr \in Tracers : proc.slot[tr] = 0
      BY <1>3, <1>4, TracerAssumption DEF ActiveRuns
    <2>2. Dooms'
      BY <1>2, <1>3, <1>4, <2>1 DEF Dooms, SameRuns, SameCalls
    <2>3. QED
      BY <1>2, <1>4, <2>2, IdlyTracks DEF Follows
  <1>5. CASE Ends
    <2>1. /\ proc.active \in Tracers /\ proc.slot[proc.active] # 0
          /\ proc'.slot = [proc.slot EXCEPT ![proc.active] = 0]
          /\ proc'.dying = proc.slot[proc.active] /\ proc'.tool = ToolWithout(proc.active)
      BY <1>1, <1>5 DEF Ends, ActiveRuns
    <2>2. \A tr \in Tracers : proc'.slot[tr] = 0
      BY <1>1, <1>3, <2>1
    <2>3. OneSlot' /\ StartingAlone' /\ Monitored' /\ OwnSlots' /\ Dooms'
      BY <1>2, <1>3, <2>2 DEF OneSlot, StartingAlone, Monitored, OwnSlots, Dooms, SameCalls
    <2>4. ForkedFree'
      BY <1>1, <1>2, <2>1 DEF Tracked, ForkedFree, SameCalls, ToolWithout
    <2>5. OwnHands'
      BY <1>1, <1>2 DEF Tracked, OwnHands, Own, history
    <2>6. Located'
      <3>1. proc.dying = 0
        BY <1>2 DEF InOrder, Ordered, HandsEmpty
      <3>2. ASSUME NEW r \in 1 .. Len(made), r > inherited
            PROVE  \/ r \in finished \/ proc'.dying = r \/ \E t \in Threads : proc.hand[t] = r
        <4>1. r # 0
          OBVIOUS
        <4>2. ASSUME NEW tr \in Tracers, proc.slot[tr] = r PROVE proc'.dying = r
          BY <1>3, <2>1, <4>1, <4>2
        <4>3. QED
          BY <1>1, <3>1, <3>2, <4>1, <4>2 DEF Tracked, Located, Own
      <3>3. QED
        BY <1>2, <3>2 DEF Located, Own, history
    <2>7. QED
      BY <1>2, <2>3, <2>4, <2>5, <2>6 DEF Tracked, Follows
  <1>6. QED
    BY <1>1, <1>4, <1>5, EndActiveDoes

\* The run that a signal ended is finished.
LEMMA HandlerJoinFollows ==
  ASSUME InOrder, HandlerJoin
  PROVE  Follows'
  <1>1. proc \in Process /\ Tracked
    BY DEF InOrder, IInv, TypeOK, Follows
  <1>2. /\ HandlerStep("join", "raise") /\ SameRuns /\ SameTool /\ proc'.dying = 0
        /\ finished' = finished \cup {proc.dying} /\ UNCHANGED <<made, inherited>>
    BY <1>1, HandlerJoinDoes
  <1> USE DEF SameRuns, SameTool, HandlerStep, SameCalls
  <1>3. OneSlot' /\ StartingAlone'
    BY <1>1, <1>2 DEF Tracked, OneSlot, StartingAlone
  <1>4. Monitored' /\ ForkedFree'
    BY <1>1, <1>2 DEF Tracked, Monitored, ForkedFree
  <1>5. Located'
    BY <1>1, <1>2 DEF Tracked, Located, Own
  <1>6. OwnSlots' /\ OwnHands'
    BY <1>1, <1>2 DEF Tracked, OwnSlots, OwnHands, Own
  <1>7. Dooms' /\ Doomed'
    BY <1>1, <1>2 DEF Tracked, Dooms, Doomed
  <1>8. QED
    BY <1>3, <1>4, <1>5, <1>6, <1>7 DEF Tracked, Follows

LEMMA SignalsFollow ==
  ASSUME InOrder, Signals
  PROVE  Follows'
  <1>1. proc \in Process /\ Tracked
    BY DEF InOrder, IInv, TypeOK, Follows
  <1>2. CASE UserHandles
    BY <1>1, <1>2, UserHandlesDoes, IdlyFollows
  <1>3. CASE Deliver \/ LookUp
    <2>1. /\ SameCalls /\ SameRuns /\ SameTool /\ SameActive /\ SameSaved /\ UNCHANGED history
          /\ proc'.dying = proc.dying /\ ~Doomed /\ ~Doomed'
      BY <1>1, <1>3, DeliverDoes, LookUpDoes DEF HandlerStep, Doomed
    <2>2. Dooms'
      BY <2>1 DEF Dooms
    <2>3. QED
      BY <2>1, <2>2, IdlyTracks, IdlySettles DEF Follows
  <1>4. CASE HandlerFlush \/ Raise
    <2>1. /\ SameCalls /\ SameRuns /\ SameTool /\ UNCHANGED history
          /\ proc'.dying = proc.dying /\ proc'.signalled = proc.signalled /\ Doomed /\ Doomed'
      BY <1>1, <1>4, HandlerFlushDoes, RaiseDoes DEF HandlerStep, Doomed
    <2>2. Dooms'
      BY <1>1, <2>1 DEF Tracked, Dooms, SameRuns, SameCalls
    <2>3. QED
      BY <2>1, <2>2, IdlyTracks DEF Follows
  <1>5. CASE Killed
    <2>1. /\ SameCalls /\ SameRuns /\ SameTool /\ SameActive /\ SameSaved /\ UNCHANGED history
          /\ proc'.dying = proc.dying /\ ~Doomed /\ ~Doomed'
      BY <1>1, <1>5, KilledDoes DEF Doomed
    <2>2. Dooms'
      BY <2>1 DEF Dooms
    <2>3. QED
      BY <2>1, <2>2, IdlyTracks, IdlySettles DEF Follows
  <1>6. QED
    BY <1>2, <1>3, <1>4, <1>5, EndActiveFollows, HandlerJoinFollows DEF Signals

LEMMA NextFollows ==
  ASSUME IInv, Known, Ordered, Undisturbed, ~proc.overlap => Follows, [Next]_vars
  PROVE  ~proc'.overlap => Follows'
  <1>1. proc \in Process
    BY DEF IInv, TypeOK
  <1>2. CASE UNCHANGED vars
    BY <1>2 DEF vars, Follows, Doomed, Own, Others,
       Tracked, OneSlot, StartingAlone, Monitored, ForkedFree, Located, OwnSlots, OwnHands, Dooms,
       Settled, PublishAlone, ToolUsed, ActiveSlot, LeavingAlone, ActiveCleared, Stale, Drained,
       InnermostRuns, OneEntered
  <1>3. ASSUME NEW t \in Threads, Spawn(t) PROVE Follows'
    BY <1>3, SpawnFollows
  <1>4. ASSUME NEW t \in Threads, Enters(t) \/ Leaves(t) PROVE ~proc'.overlap => Follows'
    BY <1>4, EntersForkOn, EntersFollow, LeavesFollow DEF ForksOn, InOrder
  <1>5. ASSUME NEW t \in Threads, Forks(t), ~Spawn(t) PROVE ~proc'.overlap => Follows'
    <2>1. proc.overlap => proc'.overlap
      <3>1. CASE Fork(t)
        BY <1>1, <3>1, ForkDoes DEF SameMarks
      <3>2. CASE ~Fork(t)
        BY <1>5, <3>2, OthersForkOn DEF ForksOn
      <3>3. QED
        BY <3>1, <3>2
    <2>2. QED
      BY <1>5, <2>1, ForksFollow DEF InOrder
  <1>6. ASSUME NEW t \in Threads, (\E tr \in Tracers : CallUse(t, tr)) \/ Use(t) PROVE ~proc'.overlap => Follows'
    BY <1>6, OthersForkOn, UsesFollow DEF ForksOn, InOrder
  <1>7. ASSUME NEW t \in Threads, Waits(t) PROVE ~proc'.overlap => Follows'
    BY <1>1, <1>7, OthersForkOn, WaitsDoes, IdlyFollows DEF ForksOn, InOrder
  <1>8. ASSUME NEW r \in DOMAIN made, ReadTails(r) \/ ReadTailsEnd(r) PROVE ~proc'.overlap => Follows'
    <2>1. SameCalls /\ SameTracing /\ SameSaved /\ SameMarks
      BY <1>1, <1>8, ReadTailsDoes
    <2>2. QED
      BY <2>1, IdlyFollows DEF SameMarks, InOrder
  <1>9. CASE Signals
    <2>1. proc.main \in Threads
      BY <1>1, ProcessFields
    <2>2. QED
      BY <1>9, <2>1, OthersForkOn, SignalsFollow DEF ForksOn, InOrder
  <1>10. QED
    BY <1>2, <1>3, <1>4, <1>5, <1>6, <1>7, <1>8, <1>9 DEF Next

LEMMA InitFollows == Init => Follows
  <1> SUFFICES ASSUME Init PROVE NoRuns
    BY NoRunsFollow
  <1>1. PICK t \in Threads, d \in {"default", "user", "ignored"} :
          proc = [Fresh(t, NoTracer) EXCEPT !.pc = [u \in Threads |-> "idle"], !.disp = d]
    BY DEF Init
  <1>2. /\ proc.slot = [tr \in Tracers |-> 0] /\ proc.hand = [u \in Threads |-> 0] /\ proc.tool = 0
        /\ proc.handler = "none" /\ proc.entered = <<>> /\ proc.active = NoTracer
        /\ proc.pc = [u \in Threads |-> "idle"]
    BY <1>1 DEF Fresh
  <1>3. inherited = 0 /\ Len(made) = 0
    BY DEF Init
  <1>4. QED
    BY <1>2, <1>3 DEF NoRuns

LEMMA AlwaysFollows == Spec => [](~proc.overlap => Follows)
  <1>1. IInv /\ Known /\ Ordered /\ Undisturbed /\ (~proc.overlap => Follows) /\ [Next]_vars
          => (~proc.overlap => Follows)'
    BY NextFollows
  <1>2. QED
    BY <1>1, InitFollows, Invariant, AlwaysKnown, AlwaysOrdered, AlwaysUndisturbed, PTL DEF Spec

\* Once the calls under way are done, the active tracer, its run and the profiler
\* tool agree, however entering, leaving, forks and signals fell: a run that has
\* not ended gets its callbacks, and an exit, a signal or a fork will find it.
THEOREM TracedAndFound == Spec => []TracedWhenQuiet
  <1>1. IInv /\ (~proc.overlap => Follows) => TracedWhenQuiet
    <2> SUFFICES ASSUME Follows, Quiet, NEW tr \in Tracers
                 PROVE  /\ proc.slot[tr] # 0 =>
                             proc.active = tr /\ tr \in proc.monitored /\ proc.tool = proc.slot[tr]
                        /\ proc.active = tr /\ proc.slot[tr] = 0 => tr \notin Subprocesses
      BY DEF TracedWhenQuiet
    <2>1. Tracked /\ Settled
      BY DEF Follows, Quiet, Doomed
    <2>2. \A t \in Threads : proc.pc[t] \notin Forked \cup Cleared \cup {"publish"}
      BY DEF Quiet, Forked, Cleared
    <2>3. QED
      BY <2>1, <2>2 DEF Tracked, Monitored, Settled, ActiveSlot, Stale
  <1>2. QED
    BY <1>1, AlwaysFollows, Invariant, PTL

\* A forked child records into no run of its parent's once its hook has run, and
\* never joins its parent's exporter.
THEOREM ChildrenApart == Spec => []ChildIsApart
  <1>1. (~proc.overlap => Follows) => ChildIsApart
    <2> SUFFICES ASSUME Follows
                 PROVE  /\ Quiet /\ proc.tool # 0 => Own(proc.tool)
                        /\ \A t \in Threads : proc.hand[t] # 0 => Own(proc.hand[t])
      BY DEF ChildIsApart
    <2>1. \A t \in Threads : proc.hand[t] # 0 => Own(proc.hand[t])
      BY DEF Follows, Tracked, OwnHands
    <2>2. ASSUME Quiet, proc.tool # 0 PROVE Own(proc.tool)
      <3>1. \A t \in Threads : proc.pc[t] \notin Starting \cup {"inChild"}
        BY <2>2 DEF Quiet, Starting
      <3>2. \E tr \in Tracers : proc.slot[tr] = proc.tool
        BY <2>2, <3>1 DEF Follows, Settled, ToolUsed, Quiet, Doomed
      <3>3. QED
        BY <2>2, <3>1, <3>2 DEF Follows, Tracked, OwnSlots
    <2>3. QED
      BY <2>1, <2>2
  <1>2. QED
    BY <1>1, AlwaysFollows, PTL

---------------------------------------------------------------------------
(* Guarded: what a signal finds that reaches the default action.            *)

\* Under the default a run in a slot was begun bare, or is being left.
Slotted ==
    proc.disp = "default" =>
        \A tr \in Tracers : proc.slot[tr] # 0 =>
            \/ proc.slot[tr] \in proc.bare
            \/ proc.pc[proc.main] \in {"stop", "take"} /\ proc.at[proc.main] = tr

Placed == \A t \in Threads : proc.pc[t] = "installed" => proc.disp = "ours"

BegunBare ==
    \A t \in Threads : proc.pc[t] = "install" /\ proc.disp = "default" => proc.hand[t] \in proc.bare

KilledByDefault == proc.status = "dead" /\ proc.handler = "none" => proc.disp = "default"

Guarded == Placed /\ BegunBare /\ KilledByDefault /\ (~proc.overlap => Slotted)

SameGuards == proc'.disp = proc.disp /\ proc'.bare = proc.bare

LEMMA EntersGuards ==
  ASSUME proc \in Process, NEW t \in Threads,
         \/ \E tr \in Tracers : CallEnter(t, tr)
         \/ Begin(t) \/ BeginFails(t) \/ LockHandlers(t) \/ KeepPrevious(t) \/ Install(t) \/ Publish(t)
  PROVE  SameGuards
  <1> USE DEF Process, SameGuards
  <1>1. CASE \E tr \in Tracers : CallEnter(t, tr)
    BY <1>1 DEF CallEnter
  <1>2. CASE Begin(t) \/ BeginFails(t)
    BY <1>2 DEF Begin, BeginFails
  <1>3. CASE LockHandlers(t) \/ KeepPrevious(t)
    BY <1>3 DEF LockHandlers, KeepPrevious
  <1>4. CASE Install(t) \/ Publish(t)
    BY <1>4 DEF Install, Publish
  <1>5. QED
    BY <1>1, <1>2, <1>3, <1>4

LEMMA LeavesGuards ==
  ASSUME proc \in Process, NEW t \in Threads,
         \/ CallExit(t) \/ Clear(t) \/ LockToHandBack(t) \/ StopAdvertising(t)
         \/ Take(t) \/ Flush(t) \/ Join(t)
  PROVE  SameGuards
  <1> USE DEF Process, SameGuards
  <1>1. CASE CallExit(t) \/ Clear(t)
    BY <1>1 DEF CallExit, Clear
  <1>2. CASE LockToHandBack(t) \/ StopAdvertising(t)
    BY <1>2 DEF LockToHandBack, StopAdvertising
  <1>3. CASE Take(t)
    BY <1>3 DEF Take
  <1>4. CASE Flush(t) \/ Join(t)
    BY <1>4 DEF Flush, Join
  <1>5. QED
    BY <1>1, <1>2, <1>3, <1>4

LEMMA OthersGuards ==
  ASSUME proc \in Process, NEW t \in Threads,
         \/ CallFork(t) \/ BeforeFork(t) \/ ForkReturns(t) \/ Fork(t) \/ AfterForkInParent(t)
         \/ (\E tr \in Tracers : CallUse(t, tr)) \/ Use(t) \/ Waits(t)
  PROVE  SameGuards
  <1> USE DEF Process, SameGuards
  <1>1. CASE CallFork(t) \/ BeforeFork(t) \/ ForkReturns(t)
    BY <1>1 DEF CallFork, BeforeFork, ForkReturns
  <1>2. CASE Fork(t) \/ AfterForkInParent(t)
    BY <1>2 DEF Fork, AfterForkInParent
  <1>3. CASE (\E tr \in Tracers : CallUse(t, tr)) \/ Use(t) \/ Waits(t)
    BY <1>3 DEF CallUse, Use, Waits
  <1>4. QED
    BY <1>1, <1>2, <1>3

LEMMA SignalsGuards ==
  ASSUME proc \in Process,
         \/ Deliver \/ Killed \/ EndActive \/ HandlerFlush \/ HandlerJoin \/ Raise
         \/ \E r \in DOMAIN made : ReadTails(r) \/ ReadTailsEnd(r)
  PROVE  SameGuards
  <1> USE DEF Process, SameGuards
  <1>1. CASE Deliver \/ Killed \/ Raise
    BY <1>1 DEF Deliver, Killed, Raise
  <1>2. CASE EndActive
    BY <1>2 DEF EndActive
  <1>3. CASE HandlerFlush \/ HandlerJoin
    BY <1>3 DEF HandlerFlush, HandlerJoin
  <1>4. CASE \E r \in DOMAIN made : ReadTails(r) \/ ReadTailsEnd(r)
    BY <1>4 DEF ReadTails, ReadTailsEnd
  <1>5. QED
    BY <1>1, <1>2, <1>3, <1>4

\* A step of a call that neither hands back, takes nor installs.
LEMMA CallGuards ==
  ASSUME proc \in Process, Guarded, NEW t \in Threads, NEW from, NEW to, NEW self,
         CallStep(t, from, to), SelfIs(t, self), SameSelf, SameGuards, proc.overlap => proc'.overlap,
         to \notin {"install", "installed"}, from # "take",
         from = "stop" => to = "take" /\ self = proc.at[t],
         \A u \in Threads \ {t} : proc'.hand[u] = proc.hand[u],
         \A x \in Tracers : proc'.slot[x] \in {0, proc.slot[x]}
  PROVE  Guarded'
  <1> USE ProcessFields DEF SameGuards, SameSelf
  <1>1. /\ \A u \in Threads \ {t} : proc'.pc[u] = proc.pc[u] /\ proc'.at[u] = proc.at[u]
        /\ proc'.pc[t] = to /\ proc'.at[t] = self /\ proc.pc[t] = from
    BY DEF CallStep, SelfIs
  <1>2. Placed' /\ BegunBare' /\ KilledByDefault'
    BY <1>1 DEF Guarded, Placed, BegunBare, KilledByDefault
  <1>3. Slotted => Slotted'
    BY <1>1 DEF Slotted
  <1>4. QED
    BY <1>2, <1>3 DEF Guarded

\* A step that is not one of a call.
LEMMA IdlyGuards ==
  ASSUME Guarded, SameCalls, proc'.main = proc.main, proc'.hand = proc.hand, SameGuards,
         proc.overlap => proc'.overlap, KilledByDefault',
         \A x \in Tracers : proc'.slot[x] \in {0, proc.slot[x]}
  PROVE  Guarded'
  <1> USE DEF SameGuards, SameCalls
  <1>1. Placed' /\ BegunBare'
    BY DEF Guarded, Placed, BegunBare
  <1>2. Slotted => Slotted'
    BY DEF Slotted
  <1>3. QED
    BY <1>1, <1>2 DEF Guarded

LEMMA EntersGuarded ==
  ASSUME IInv, Ordered, Guarded, NEW t \in Threads, Enters(t)
  PROVE  Guarded'
  <1> USE ProcessFields
  <1>1. proc \in Process
    BY DEF IInv, TypeOK
  <1>2. proc.overlap => proc'.overlap
    BY EntersForkOn DEF ForksOn
  <1>3. CASE (\E tr \in Tracers : CallEnter(t, tr)) \/ BeginFails(t) \/ LockHandlers(t)
    <2>1. SameTracing /\ SameGuards
      BY <1>1, <1>3, EntersGuards, CallEnterDoes, BeginFailsDoes, LockHandlersDoes
    <2>2. PICK from, to, self :
            /\ from \in {"idle", "begin", "takeOver"} /\ to \in {"begin", "idle", "asking"}
            /\ CallStep(t, from, to) /\ SelfIs(t, self)
      BY <1>1, <1>3, CallEnterDoes, BeginFailsDoes, LockHandlersDoes
    <2>3. QED
      BY <1>1, <1>2, <2>1, <2>2, CallGuards DEF SameTracing, SameRuns
  <1>4. CASE Begin(t)
    <2>1. SameGuards
      BY <1>1, <1>4, EntersGuards
    <2>2. /\ CallStep(t, "begin", "takeOver") /\ SelfIs(t, proc.at[t]) /\ SameSelf /\ proc'.slot = proc.slot
          /\ proc'.hand = [proc.hand EXCEPT ![t] = NextRun]
      BY <1>1, <1>4, BeginDoes
    <2>3. \A u \in Threads \ {t} : proc'.hand[u] = proc.hand[u]
      BY <1>1, <2>2
    <2>4. QED
      BY <1>1, <1>2, <2>1, <2>2, <2>3, CallGuards
  <1>5. CASE Publish(t)
    <2>1. SameGuards
      BY <1>1, <1>5, EntersGuards
    <2>2. CallStep(t, "publish", "idle") /\ SelfIs(t, NoTracer) /\ SameSelf /\ SameRuns
      BY <1>1, <1>5, PublishDoes
    <2>3. QED
      BY <1>1, <1>2, <2>1, <2>2, CallGuards DEF SameRuns
  <1>6. CASE TakeOver(t)
    <2>1. CallStep(t, "asking", "installed") /\ SameTracing
      BY <1>1, <1>6, TakeOverDoes
    <2>2. proc'.disp = "ours"
      BY <1>1, <1>6 DEF TakeOver, Process
    <2>3. proc.status = "alive" /\ proc'.status = proc.status
      BY <2>1 DEF CallStep, Runs, SameTracing, SameSelf
    <2>4. QED
      BY <2>2, <2>3 DEF Guarded, Placed, BegunBare, KilledByDefault, Slotted
  <1>7. CASE LeaveHandlers(t)
    <2>1. CallStep(t, "asking", "install") /\ SelfIs(t, proc.at[t]) /\ SameTracing
      BY <1>1, <1>7, LeaveHandlersDoes
    <2>2. /\ proc'.disp = proc.disp
          /\ proc'.bare = IF proc.disp = "default" THEN proc.bare \cup {proc.hand[t]} ELSE proc.bare
      BY <1>1, <1>7 DEF LeaveHandlers, Process
    <2>3. /\ \A u \in Threads \ {t} : proc'.pc[u] = proc.pc[u] /\ proc'.at[u] = proc.at[u]
          /\ proc'.pc[t] = "install" /\ proc.pc[t] = "asking" /\ proc'.at[t] = proc.at[t]
      BY <1>1, <2>1 DEF CallStep, SelfIs
    <2>4. /\ proc'.hand = proc.hand /\ proc'.slot = proc.slot /\ proc'.main = proc.main
          /\ proc'.status = "alive"
      BY <2>1 DEF SameTracing, SameRuns, SameSelf, CallStep, Runs
    <2>5. Placed' /\ BegunBare' /\ KilledByDefault'
      BY <2>2, <2>3, <2>4 DEF Guarded, Placed, BegunBare, KilledByDefault
    <2>6. Slotted => Slotted'
      BY <1>1, <2>2, <2>3, <2>4 DEF Slotted
    <2>7. QED
      BY <1>2, <2>5, <2>6 DEF Guarded
  <1>8. CASE KeepPrevious(t)
    <2>1. CallStep(t, "installed", "install") /\ SameTracing
      BY <1>1, <1>8, KeepPreviousDoes
    <2>2. SameGuards
      BY <1>1, <1>8, EntersGuards
    <2>3. proc'.disp = "ours" /\ proc'.status = "alive"
      BY <2>1, <2>2 DEF CallStep, Runs, SameTracing, SameSelf, Guarded, Placed, SameGuards
    <2>4. QED
      BY <2>3 DEF Guarded, Placed, BegunBare, KilledByDefault, Slotted
  <1>9. CASE Install(t)
    <2>1. /\ CallStep(t, "install", "publish") /\ SelfIs(t, proc.at[t]) /\ SameSelf
          /\ proc'.slot = [proc.slot EXCEPT ![proc.at[t]] = proc.hand[t]]
          /\ proc'.hand = [proc.hand EXCEPT ![t] = 0]
      BY <1>1, <1>9, InstallDoes
    <2>2. SameGuards
      BY <1>1, <1>9, EntersGuards
    <2>3. /\ \A u \in Threads \ {t} : proc'.pc[u] = proc.pc[u] /\ proc'.at[u] = proc.at[u]
                                      /\ proc'.hand[u] = proc.hand[u]
          /\ proc'.pc[t] = "publish" /\ proc.pc[t] = "install" /\ proc'.at[t] = proc.at[t]
      BY <1>1, <2>1 DEF CallStep, SelfIs
    <2>4. Placed' /\ BegunBare' /\ KilledByDefault'
      BY <2>1, <2>2, <2>3 DEF Guarded, Placed, BegunBare, KilledByDefault, SameGuards, SameSelf
    <2>5. Slotted => Slotted'
      <3>1. proc.disp = "default" => proc.hand[t] \in proc.bare
        BY <2>3 DEF Guarded, BegunBare
      <3>2. \A x \in Tracers : proc'.slot[x] = proc.slot[x] \/ proc'.slot[x] = proc.hand[t]
        BY <1>1, <2>1
      <3>3. QED
        BY <1>1, <2>1, <2>2, <2>3, <3>1, <3>2 DEF Slotted, SameGuards, SameSelf
    <2>6. QED
      BY <1>2, <2>4, <2>5 DEF Guarded
  <1>10. QED
    BY <1>3, <1>4, <1>5, <1>6, <1>7, <1>8, <1>9 DEF Enters

\* When the main thread hands the handlers back, the run it leaves is the only one.
LEMMA HandBackGuarded ==
  ASSUME IInv, Ordered, ~proc.overlap => Follows, Guarded, NEW t \in Threads, HandBack(t)
  PROVE  Guarded'
  <1> USE ProcessFields
  <1>1. proc \in Process
    BY DEF IInv, TypeOK
  <1>2. CallStep(t, "handing", "stop") /\ SelfIs(t, proc.at[t]) /\ SameTracing /\ SameMarks
    BY <1>1, HandBackDoes
  <1>3. /\ proc'.disp = IF t = proc.main /\ proc.disp = "ours" THEN proc.saved ELSE proc.disp
        /\ proc'.bare = proc.bare
    BY <1>1 DEF HandBack, Process
  <1>4. /\ \A u \in Threads \ {t} : proc'.pc[u] = proc.pc[u] /\ proc'.at[u] = proc.at[u]
        /\ proc'.pc[t] = "stop" /\ proc.pc[t] = "handing" /\ proc'.at[t] = proc.at[t]
    BY <1>1, <1>2 DEF CallStep, SelfIs
  <1>5. /\ proc'.hand = proc.hand /\ proc'.slot = proc.slot /\ proc'.main = proc.main
        /\ proc'.status = "alive" /\ proc'.overlap = proc.overlap
    BY <1>2 DEF SameTracing, SameRuns, SameSelf, SameMarks, CallStep, Runs
  <1>6. CASE proc'.disp = proc.disp
    BY <1>2, <1>3, <1>5, <1>6, <1>1, CallGuards DEF SameTracing, SameGuards
  <1>7. CASE t = proc.main /\ proc.disp = "ours"
    <2>1. proc.handler = "none" /\ \A u \in Threads : proc.pc[u] \notin KeepsGil
      BY <1>1, <1>2, <1>4, <1>7, NobodyKeepsGil DEF Ordered, CallStep, Runs, KeepsGil
    <2>2. Placed'
      BY <1>4, <1>7 DEF Placed, IInv, Discipline, Replaced
    <2>3. BegunBare' /\ KilledByDefault'
      BY <1>4, <1>5, <2>1 DEF BegunBare, KilledByDefault, KeepsGil
    <2>4. ~proc.overlap => Slotted'
      <3>1. ~proc.overlap => \A tr \in Tracers : proc.slot[tr] # 0 => proc.at[t] = tr
        BY <1>4, <2>1 DEF Follows, Settled, LeavingAlone, Doomed, Leaving
      <3>2. QED
        BY <1>4, <1>5, <1>7, <3>1 DEF Slotted
    <2>5. QED
      BY <1>5, <2>2, <2>3, <2>4 DEF Guarded
  <1>8. QED
    BY <1>3, <1>6, <1>7

LEMMA LeavesGuarded ==
  ASSUME IInv, Ordered, ~proc.overlap => Follows, Guarded, NEW t \in Threads, Leaves(t)
  PROVE  Guarded'
  <1> USE ProcessFields
  <1>1. proc \in Process
    BY DEF IInv, TypeOK
  <1>2. proc.overlap => proc'.overlap
    BY EntersForkOn DEF ForksOn
  <1>3. CASE CallExit(t) \/ Clear(t) \/ LockToHandBack(t) \/ StopAdvertising(t) \/ Flush(t)
    <2>1. SameSelf /\ SameRuns /\ SameGuards
      BY <1>1, <1>3, LeavesGuards, CallExitDoes, ClearDoes, LockToHandBackDoes, StopAdvertisingDoes, FlushDoes
         DEF SameTracing
    <2>2. CASE CallExit(t)
      <3>1. CallStep(t, "idle", "clear") /\ SelfIs(t, proc.entered[Len(proc.entered)])
        BY <1>1, <2>2, CallExitDoes
      <3>2. QED
        BY <1>1, <1>2, <2>1, <3>1, CallGuards DEF SameRuns
    <2>3. CASE ~CallExit(t)
      <3>1. PICK from \in {"clear", "handBack", "stop", "flush"},
                 to \in {"handBack", "handing", "stop", "take", "join"} :
              CallStep(t, from, to) /\ (from = "stop" => to = "take")
        BY <1>1, <1>3, <2>3, ClearDoes, LockToHandBackDoes, StopAdvertisingDoes, FlushDoes
      <3>2. SelfIs(t, proc.at[t])
        BY <1>1, <1>3, <2>3, ClearDoes, LockToHandBackDoes, StopAdvertisingDoes, FlushDoes
      <3>3. QED
        BY <1>1, <1>2, <2>1, <3>1, <3>2, CallGuards DEF SameRuns
    <2>4. QED
      BY <2>2, <2>3
  <1>4. CASE Join(t)
    <2>1. SameGuards
      BY <1>1, <1>4, LeavesGuards
    <2>2. /\ CallStep(t, "join", "idle") /\ SelfIs(t, NoTracer) /\ SameSelf /\ proc'.slot = proc.slot
          /\ \A u \in Threads \ {t} : proc'.hand[u] = proc.hand[u]
      BY <1>1, <1>4, JoinDoes
    <2>3. QED
      BY <1>1, <1>2, <2>1, <2>2, CallGuards
  <1>5. CASE Take(t)
    <2>1. proc.at[t] \in Tracers
      BY <1>5 DEF Take, At, IInv, Discipline, SelfInCall, InCall, Steps
    <2>2. SameGuards /\ SameSelf /\ proc.pc[t] = "take"
      BY <1>1, <1>5, LeavesGuards, TakeDoes, <2>1 DEF Take, At
    <2>3. PICK to \in {"idle", "flush"}, self \in {NoTracer, proc.at[t]} :
            CallStep(t, "take", to) /\ SelfIs(t, self)
      BY <1>1, <1>5, <2>1, TakeDoes
    <2>4. /\ \A u \in Threads \ {t} : proc'.hand[u] = proc.hand[u]
          /\ \A x \in Tracers : proc'.slot[x] \in {0, proc.slot[x]}
          /\ proc'.slot[proc.at[t]] = 0
      <3>1. \/ proc.slot[proc.at[t]] = 0 /\ SameRuns
            \/ /\ proc'.slot = [proc.slot EXCEPT ![proc.at[t]] = 0]
               /\ proc'.hand = [proc.hand EXCEPT ![t] = proc.slot[proc.at[t]]]
        BY <1>1, <1>5, <2>1, TakeDoes DEF SameTracing
      <3>2. QED
        BY <1>1, <2>1, <3>1 DEF SameRuns
    <2>5. /\ \A u \in Threads \ {t} : proc'.pc[u] = proc.pc[u] /\ proc'.at[u] = proc.at[u]
          /\ proc'.pc[t] = to
      BY <1>1, <2>3 DEF CallStep, SelfIs
    <2>6. Placed' /\ BegunBare' /\ KilledByDefault'
      BY <2>2, <2>4, <2>5 DEF Guarded, Placed, BegunBare, KilledByDefault, SameGuards, SameSelf
    <2>7. Slotted => Slotted'
      BY <1>1, <2>2, <2>4, <2>5 DEF Slotted, SameGuards, SameSelf
    <2>8. QED
      BY <1>2, <2>6, <2>7 DEF Guarded
  <1>6. QED
    BY <1>3, <1>4, <1>5, HandBackGuarded DEF Leaves

LEMMA ForksGuarded ==
  ASSUME IInv, Known, Ordered, Undisturbed, ~proc.overlap => Follows, Guarded, NEW t \in Threads, Forks(t)
  PROVE  Guarded'
  <1> USE ProcessFields
  <1>1. proc \in Process
    BY DEF IInv, TypeOK
  <1>2. CASE CallFork(t) \/ BeforeFork(t) \/ ForkReturns(t) \/ AfterForkInParent(t)
    <2>1. SameSelf /\ SameRuns /\ SameGuards
      BY <1>1, <1>2, OthersGuards, CallForkDoes, BeforeForkDoes, ForkReturnsDoes, AfterForkInParentDoes
         DEF SameTracing
    <2>2. PICK from \in {"idle", "beforeFork", "forking", "inParent"},
               to \in {"beforeFork", "forking", "inParent", "idle"} :
            CallStep(t, from, to) /\ SelfIs(t, proc.at[t])
      BY <1>1, <1>2, CallForkDoes, BeforeForkDoes, ForkReturnsDoes, AfterForkInParentDoes
    <2>3. proc.overlap => proc'.overlap
      BY <1>1, <1>2, CallForkDoes, BeforeForkDoes, ForkReturnsDoes, AfterForkInParentDoes DEF SameMarks
    <2>4. QED
      BY <1>1, <2>1, <2>2, <2>3, CallGuards DEF SameRuns
  <1>3. CASE Fork(t)
    <2>1. /\ Runs(t) /\ proc.pc[t] = "forking" /\ proc'.status = proc.status /\ proc'.slot = proc.slot
          /\ \A u \in Threads : proc'.pc[u] \in {"gone", "inChild", "idle"}
          /\ proc'.overlap = proc.overlap
      BY <1>1, <1>3, ForkDoes DEF SameMarks
    <2>2. SameGuards
      BY <1>1, <1>3, OthersGuards
    <2>3. Placed' /\ BegunBare' /\ KilledByDefault'
      BY <2>1 DEF Placed, BegunBare, KilledByDefault, Runs
    <2>4. ~proc.overlap => proc.pc[proc.main] \notin {"stop", "take"}
      BY <1>1, <2>1, ForkerAlone DEF InOrder, Forkers, Leaving
    <2>5. QED
      BY <2>1, <2>2, <2>3, <2>4 DEF Guarded, Slotted, SameGuards
  <1>4. CASE Spawn(t)
    <2>1. proc.env # NoTracer /\ proc' = Fresh(t, proc.env)
      BY <1>1, <1>4, SpawnDoes
    <2>2. /\ proc'.pc = [u \in Threads |-> IF u # t THEN "gone" ELSE "begin"]
          /\ proc'.slot = [tr \in Tracers |-> 0] /\ proc'.status = "alive"
      BY <2>1, FreshHas
    <2>3. \A u \in Threads : proc'.pc[u] \in {"gone", "begin"}
      BY <2>2
    <2>4. QED
      BY <2>2, <2>3 DEF Guarded, Placed, BegunBare, KilledByDefault, Slotted
  <1>5. CASE AfterForkInChild(t)
    <2>1. /\ CallStep(t, "inChild", "idle") /\ SelfIs(t, proc.at[t]) /\ SameSelf /\ SameMarks
          /\ proc'.hand = proc.hand
          /\ \/ /\ proc.active \in Subprocesses /\ proc.tool = 0
                /\ proc'.slot = [proc.slot EXCEPT ![proc.active] = NextRun]
             \/ /\ ~(proc.active \in Subprocesses /\ proc.tool = 0)
                /\ proc'.slot = [proc.slot EXCEPT ![proc.active] = 0]
      BY <1>1, <1>5, AfterForkInChildDoes
    <2>2. /\ proc'.disp = proc.disp
          /\ proc'.bare = IF (proc.active \in Subprocesses /\ ToolIsFree) /\ proc.disp = "default"
                          THEN proc.bare \cup {NextRun} ELSE proc.bare
      <3> DEFINE begins == proc.active \in Subprocesses /\ ToolIsFree
                 bare == IF begins /\ proc.disp = "default" THEN proc.bare \cup {NextRun} ELSE proc.bare
                 slot == [x \in Tracers |->
                            IF x # proc.active THEN proc.slot[x] ELSE IF begins THEN NextRun ELSE 0]
                 monitored == IF begins THEN proc.monitored \cup {proc.active}
                              ELSE proc.monitored \ {proc.active}
                 tool == IF begins THEN NextRun ELSE proc.tool
      <3>1. proc' = [proc EXCEPT !.slot = slot, !.monitored = monitored, !.tool = tool,
                                 !.bare = bare, !.pc[t] = "idle", !.gil = NoOne]
        BY <1>5 DEF AfterForkInChild
      <3> HIDE DEF begins, bare, slot, monitored, tool
      <3>2. proc'.disp = proc.disp /\ proc'.bare = bare
        BY <1>1, <3>1 DEF Process
      <3>3. QED
        BY <3>2 DEF begins, bare
    <2>3. /\ \A u \in Threads \ {t} : proc'.pc[u] = proc.pc[u] /\ proc'.at[u] = proc.at[u]
          /\ proc'.pc[t] = "idle" /\ proc.pc[t] = "inChild" /\ proc'.at[t] = proc.at[t]
      BY <1>1, <2>1 DEF CallStep, SelfIs
    <2>4. Placed' /\ BegunBare' /\ KilledByDefault'
      BY <2>1, <2>2, <2>3 DEF Guarded, Placed, BegunBare, KilledByDefault, SameSelf
    <2>5. Slotted => Slotted'
      <3> SUFFICES ASSUME Slotted, proc.disp = "default", NEW x \in Tracers, proc'.slot[x] # 0
                   PROVE  \/ proc'.slot[x] \in proc'.bare
                          \/ proc'.pc[proc.main] \in {"stop", "take"} /\ proc'.at[proc.main] = x
        BY <2>1, <2>2 DEF Slotted, SameSelf
      <3>1. CASE x = proc.active
        BY <1>1, <2>1, <2>2, <3>1 DEF ToolIsFree
      <3>2. CASE x # proc.active
        <4>1. proc'.slot[x] = proc.slot[x]
          BY <1>1, <2>1, <3>2
        <4>2. proc.slot[x] \in proc.bare \/ (proc.pc[proc.main] \in {"stop", "take"} /\ proc.at[proc.main] = x)
          BY <4>1 DEF Slotted
        <4>3. proc.main # t \/ proc.pc[proc.main] = "inChild"
          BY <2>3
        <4>4. QED
          BY <1>1, <2>2, <2>3, <4>1, <4>2, <4>3
      <3>3. QED
        BY <3>1, <3>2
    <2>6. QED
      BY <2>1, <2>4, <2>5 DEF Guarded, SameMarks
  <1>6. QED
    BY <1>2, <1>3, <1>4, <1>5 DEF Forks

LEMMA SignalsGuarded ==
  ASSUME IInv, Ordered, Guarded, Signals
  PROVE  Guarded'
  <1> USE ProcessFields DEF HandlerStep
  <1>1. proc \in Process
    BY DEF IInv, TypeOK
  <1>2. CASE UserHandles
    <2>1. SameCalls /\ SameTracing /\ proc.pc[proc.main] = "idle" /\ proc.status = "alive"
      BY <1>1, <1>2, UserHandlesDoes DEF UserHandles, At, Runs
    <2>2. proc'.disp = "user"
      BY <1>1, <1>2 DEF UserHandles, Process
    <2>3. Placed'
      BY <1>1, <2>1 DEF Placed, SameCalls, IInv, Discipline, Replaced
    <2>4. QED
      BY <2>1, <2>2, <2>3 DEF Guarded, BegunBare, KilledByDefault, Slotted, SameTracing, SameSelf
  <1>3. CASE LookUp
    <2>1. /\ SameRuns /\ proc'.status = "alive" /\ Free("REPLACED_HANDLERS") /\ SameCalls
          /\ proc'.main = proc.main /\ proc'.overlap = proc.overlap
      BY <1>1, <1>3, LookUpDoes DEF SameMarks
    <2>2. proc'.disp \in {proc.disp, "ignored"} /\ proc'.bare = proc.bare
      BY <1>1, <1>3 DEF LookUp, Process
    <2>3. \A u \in Threads : proc.pc[u] # "installed"
      BY <2>1, LocksDiffer DEF IInv, Discipline, Holders, HandlersHeld, Free
    <2>4. Placed' /\ KilledByDefault'
      BY <2>1, <2>3 DEF Placed, KilledByDefault, SameCalls
    <2>5. BegunBare'
      BY <2>1, <2>2 DEF Guarded, BegunBare, SameCalls, SameRuns
    <2>6. Slotted => Slotted'
      BY <2>1, <2>2 DEF Slotted, SameCalls, SameRuns
    <2>7. QED
      BY <2>1, <2>4, <2>5, <2>6 DEF Guarded
  <1>4. CASE Deliver \/ HandlerFlush \/ HandlerJoin \/ Raise
    <2>1. SameGuards
      BY <1>1, <1>4, SignalsGuards
    <2>2. /\ SameCalls /\ SameRuns /\ proc'.main = proc.main /\ (proc.overlap => proc'.overlap)
          /\ proc'.handler # "none"
      BY <1>1, <1>4, DeliverDoes, HandlerFlushDoes, HandlerJoinDoes, RaiseDoes DEF SameMarks
    <2>3. QED
      BY <2>1, <2>2, IdlyGuards DEF KilledByDefault, SameRuns
  <1>5. CASE EndActive
    <2>1. SameGuards
      BY <1>1, <1>5, SignalsGuards
    <2>2. /\ SameCalls /\ proc'.hand = proc.hand /\ proc'.main = proc.main /\ proc'.overlap = proc.overlap
          /\ proc'.handler # "none"
      BY <1>1, <1>5, EndActiveDoes DEF SameMarks
    <2>3. \A x \in Tracers : proc'.slot[x] \in {0, proc.slot[x]}
      BY <1>1, <1>5, EndActiveDoes DEF Ends, SameRuns
    <2>4. QED
      BY <2>1, <2>2, <2>3, IdlyGuards DEF KilledByDefault
  <1>6. CASE Killed
    <2>1. SameGuards /\ proc.disp = "default"
      BY <1>1, <1>6, SignalsGuards DEF Killed
    <2>2. SameCalls /\ SameRuns /\ proc'.main = proc.main /\ proc'.overlap = proc.overlap
      BY <1>1, <1>6, KilledDoes DEF SameMarks
    <2>3. QED
      BY <2>1, <2>2, IdlyGuards DEF KilledByDefault, SameRuns, SameGuards
  <1>7. QED
    BY <1>2, <1>3, <1>4, <1>5, <1>6 DEF Signals

LEMMA NextGuarded ==
  ASSUME IInv, Known, Ordered, Undisturbed, ~proc.overlap => Follows, Guarded, [Next]_vars
  PROVE  Guarded'
  <1>1. proc \in Process
    BY DEF IInv, TypeOK
  <1>2. CASE UNCHANGED vars
    BY <1>2 DEF vars, Guarded, Placed, BegunBare, KilledByDefault, Slotted
  <1>3. ASSUME NEW t \in Threads, (\E tr \in Tracers : CallUse(t, tr)) \/ Use(t) PROVE Guarded'
    <2>1. SameGuards
      BY <1>1, <1>3, OthersGuards
    <2>2. PICK from, to, self :
            from \in {"idle", "use"} /\ to \in {"idle", "use"} /\ CallStep(t, from, to) /\ SelfIs(t, self)
      BY <1>1, <1>3, CallUseDoes, UseDoes
    <2>3. SameTracing /\ SameMarks
      BY <1>1, <1>3, CallUseDoes, UseDoes
    <2>4. QED
      BY <1>1, <2>1, <2>2, <2>3, CallGuards DEF SameTracing, SameRuns, SameMarks
  <1>4. ASSUME NEW t \in Threads, Waits(t) PROVE Guarded'
    <2>1. SameGuards /\ SameCalls /\ SameTracing /\ SameMarks
      BY <1>1, <1>4, OthersGuards, WaitsDoes
    <2>2. KilledByDefault'
      BY <2>1 DEF Guarded, KilledByDefault, SameGuards, SameTracing, SameSelf
    <2>3. QED
      BY <2>1, <2>2, IdlyGuards DEF SameTracing, SameSelf, SameRuns, SameMarks
  <1>5. ASSUME NEW r \in DOMAIN made, ReadTails(r) \/ ReadTailsEnd(r) PROVE Guarded'
    <2>1. SameGuards /\ SameCalls /\ SameTracing /\ SameMarks
      BY <1>1, <1>5, SignalsGuards, ReadTailsDoes
    <2>2. KilledByDefault'
      BY <2>1 DEF Guarded, KilledByDefault, SameGuards, SameTracing, SameSelf
    <2>3. QED
      BY <2>1, <2>2, IdlyGuards DEF SameTracing, SameSelf, SameRuns, SameMarks
  <1>6. QED
    BY <1>2, <1>3, <1>4, <1>5, EntersGuarded, LeavesGuarded, ForksGuarded, SignalsGuarded DEF Next

LEMMA AlwaysGuarded == Spec => []Guarded
  <1>1. Init => Guarded
    <2> SUFFICES ASSUME Init PROVE Guarded
      OBVIOUS
    <2>1. PICK t \in Threads, d \in {"default", "user", "ignored"} :
            proc = [Fresh(t, NoTracer) EXCEPT !.pc = [u \in Threads |-> "idle"], !.disp = d]
      BY DEF Init
    <2>2. /\ proc.slot = [tr \in Tracers |-> 0] /\ proc.pc = [u \in Threads |-> "idle"]
          /\ proc.status = "alive"
      BY <2>1 DEF Fresh
    <2>3. QED
      BY <2>2 DEF Guarded, Placed, BegunBare, KilledByDefault, Slotted
  <1>2. IInv /\ Known /\ Ordered /\ Undisturbed /\ (~proc.overlap => Follows) /\ Guarded /\ [Next]_vars
          => Guarded'
    BY NextGuarded
  <1>3. QED
    BY <1>1, <1>2, Invariant, AlwaysKnown, AlwaysOrdered, AlwaysUndisturbed, AlwaysFollows, PTL DEF Spec

\* When a deadly signal kills the process, whether the tracer's handler has let it
\* through or it found the default action in place, every run there was when it
\* came has been finished, or another thread has it in hand; or the signal found
\* the default, and the run was not guarded against it: it was begun without a
\* handler, or the main thread was entering or leaving it.
THEOREM DeathFinishes == Spec => []DiesFinished
  <1>1. IInv /\ Ordered /\ (~proc.overlap => Follows) /\ Guarded => DiesFinished
    <2> SUFFICES ASSUME IInv, Ordered, Follows, Guarded, ~proc.overlap, proc.status = "dead",
                        NEW r \in 1 .. proc.signalled, Own(r)
                 PROVE  \/ r \in finished \/ \E t \in Threads \ {proc.main} : proc.hand[t] = r
                        \/ proc.handler = "none" /\ Unguarded(r)
      BY DEF DiesFinished
    <2> USE ProcessFields
    <2>1. proc.handler \in {"raise", "none"} /\ proc.signalled <= Len(made) /\ proc \in Process
      BY DEF Ordered, HandlerBusy, IInv, TypeOK
    <2>2. proc.signalled \in Nat /\ Len(made) \in Nat
      BY DEF IInv, TypeOK, Process
    <2>3. r \in 1 .. Len(made) /\ r # 0
      BY <2>1, <2>2
    <2>4. proc.dying = 0
      BY <2>1 DEF Ordered, HandsEmpty
    <2>5. \/ r \in finished \/ \E tr \in Tracers : proc.slot[tr] = r
          \/ \E t \in Threads : proc.hand[t] = r
      BY <2>3, <2>4 DEF Follows, Tracked, Located
    <2>6. CASE proc.handler = "raise"
      <3>1. proc.hand[proc.main] = 0
        BY <2>1, <2>6 DEF Ordered, HandsEmpty, HandlerBusy
      <3>2. ASSUME NEW tr \in Tracers PROVE proc.slot[tr] # r
        <4>1. proc.slot[tr] = 0 \/ proc.slot[tr] > proc.signalled
          BY <2>6 DEF Follows, Tracked, Dooms, Doomed
        <4>2. proc.slot[tr] \in Nat
          BY <2>1
        <4>3. QED
          BY <2>2, <2>3, <4>1, <4>2
      <3>3. QED
        BY <2>3, <2>5, <3>1, <3>2
    <2>7. CASE proc.handler = "none"
      <3>1. proc.disp = "default"
        BY <2>7 DEF Guarded, KilledByDefault
      <3>2. ASSUME NEW tr \in Tracers, proc.slot[tr] = r PROVE Unguarded(r)
        BY <2>3, <3>1, <3>2 DEF Guarded, Slotted, Unguarded, Self
      <3>3. ASSUME proc.hand[proc.main] = r PROVE Unguarded(r)
        <4>1. proc.pc[proc.main] \in Starting \cup Finishing
          BY <2>1, <2>3, <3>3 DEF Ordered, HandsEmpty
        <4>2. proc.pc[proc.main] # "installed"
          BY <2>1, <3>1 DEF Guarded, Placed
        <4>3. proc.pc[proc.main] = "install" => r \in proc.bare
          BY <2>1, <3>1, <3>3 DEF Guarded, BegunBare
        <4>4. QED
          BY <3>3, <4>1, <4>2, <4>3 DEF Unguarded, Starting, Finishing
      <3>4. QED
        BY <2>5, <2>7, <3>2, <3>3
    <2>8. QED
      BY <2>1, <2>6, <2>7
  <1>2. QED
    BY <1>1, AlwaysFollows, AlwaysGuarded, AlwaysOrdered, Invariant, PTL
==================================================
