---------------------------- MODULE TracerProofs ----------------------------
(***************************************************************************)
(* What is proved of Tracer, for every number of threads, tracers, runs    *)
(* and generations of processes.                                           *)
(***************************************************************************)
EXTENDS Tracer, TLAPS

\* The steps of a call that has a tracer for its self.
InCall == Steps \ {"gone", "idle", "beforeFork", "forking", "inParent", "inChild"}

SelfInCall == \A t \in Threads : proc.pc[t] \in InCall => proc.at[t] \in Tracers

\* The runs on stacks and in tracers are runs that were made.
RunsKnown ==
    /\ \A tr \in Tracers : proc.slot[tr] \in 0 .. Len(made)
    /\ \A t \in Threads :
         /\ proc.hand[t] \in 0 .. Len(made)
         /\ proc.pc[t] \in {"flush", "join"} => proc.hand[t] # 0
    /\ proc.dying \in 0 .. Len(made)
    /\ proc.handler \in {"flush", "join"} => proc.dying # 0

HandlersHeld == {"asking", "installed", "handing"}

\* Who holds which mutex between two steps.
Owners ==
    \A l \in Locks, u \in Threads : proc.owner[l] = u =>
        \/ l = "REPLACED_HANDLERS" /\ proc.pc[u] \in HandlersHeld
        \/ l = proc.at[u] /\ proc.pc[u] \in {"flush", "join"}
        \/ u = proc.main /\ proc.handler \in {"flush", "join"} /\ l \in {"ACTIVE", proc.active}

Holders ==
    /\ \A u \in Threads : proc.pc[u] \in HandlersHeld => proc.owner["REPLACED_HANDLERS"] = u
    /\ proc.handler \in {"flush", "join"} => proc.owner["ACTIVE"] = proc.main

\* Who ends a run keeps the GIL until it joins the exporter.
GilKept ==
    /\ \A u \in Threads :
         proc.pc[u] = "flush" => proc.gil = u /\ (u = proc.main => proc.handler = "none")
    /\ proc.handler \in {"ending", "flush"} => proc.gil = proc.main

Replaced ==
    \A u \in Threads :
        /\ proc.pc[u] = "installed" => u = proc.main /\ proc.previous # "none"
        /\ proc.pc[u] = "handing" => proc.saved # "none"

Discipline == SelfInCall /\ RunsKnown /\ Owners /\ Holders /\ GilKept /\ Replaced

IInv == TypeOK /\ Discipline

---------------------------------------------------------------------------
(* The fields of a process.                                                 *)

LEMMA ProcessFields ==
  ASSUME NEW p \in Process
  PROVE  /\ p.pc \in [Threads -> Steps] /\ p.at \in [Threads -> Tracers \cup {NoTracer}]
         /\ p.hand \in [Threads -> Nat] /\ p.slot \in [Tracers -> Nat]
         /\ p.owner \in [Locks -> Threads \cup {NoOne, Exporter, Vanished}]
         /\ p.main \in Threads /\ p.gil \in Threads \cup {NoOne}
         /\ p.active \in Tracers \cup {NoTracer} /\ p.dying \in Nat
  BY DEF Process

LEMMA LocksDiffer ==
  /\ "ACTIVE" \in Locks /\ "REPLACED_HANDLERS" \in Locks /\ "RECORDERS" \in Locks
  /\ \A tr \in Tracers : tr \in Locks
  /\ \A tr \in Tracers \cup {NoTracer} :
        tr # "ACTIVE" /\ tr # "REPLACED_HANDLERS" /\ tr # "RECORDERS"
  /\ NoOne \notin Threads /\ Exporter \notin Threads /\ Vanished \notin Threads
  BY TracerAssumption DEF Locks

---------------------------------------------------------------------------
(* Steps that neither take nor release a mutex.                             *)

Unlocked == Steps \ (HandlersHeld \cup {"flush", "join"})

Moves(t, to, self) ==
    /\ proc'.pc = [proc.pc EXCEPT ![t] = to]
    /\ proc'.at = [proc.at EXCEPT ![t] = self]

SameRuns == proc'.hand = proc.hand /\ proc'.slot = proc.slot

SameHandlers ==
    /\ proc'.main = proc.main /\ proc'.handler = proc.handler /\ proc'.dying = proc.dying
    /\ proc'.saved = proc.saved /\ proc'.previous = proc.previous

LEMMA StillWithin ==
  ASSUME NEW few \in Nat, NEW more \in Nat, few <= more, NEW r \in 0 .. few
  PROVE  r \in 0 .. more
  OBVIOUS

\* A thread goes on to a step in which it holds no mutex.
LEMMA CallMoves ==
  ASSUME proc \in Process, proc' \in Process, made \in Seq(Tracers), made' \in Seq(Tracers),
         Discipline, NEW t \in Threads, Runs(t),
         NEW to \in Unlocked, NEW self, proc.pc[t] \in Unlocked, to \in InCall => self \in Tracers,
         Moves(t, to, self), SameHandlers, Len(made) <= Len(made'),
         \A u \in Threads : proc'.hand[u] = proc.hand[u] \/ (u = t /\ proc'.hand[u] \in 0 .. Len(made')),
         \A tr \in Tracers : proc'.slot[tr] \in 0 .. Len(made'),
         proc'.owner = proc.owner, proc'.active = proc.active \/ Free("ACTIVE")
  PROVE  Discipline'
  <1>0. \A r \in 0 .. Len(made) : r \in 0 .. Len(made')
    <2>1. Len(made) \in Nat /\ Len(made') \in Nat
      OBVIOUS
    <2>2. QED
      BY <2>1, StillWithin
  <1> USE ProcessFields, LocksDiffer
      DEF Discipline, Unlocked, HandlersHeld, Moves, SameHandlers
  <1>1. \A u \in Threads \ {t} : proc'.pc[u] = proc.pc[u] /\ proc'.at[u] = proc.at[u]
    OBVIOUS
  <1>2. proc'.pc[t] = to /\ proc'.at[t] = self
    OBVIOUS
  <1>3. SelfInCall'
    BY <1>1, <1>2 DEF SelfInCall
  <1>4. RunsKnown'
    <2>1. Len(made) \in Nat /\ Len(made') \in Nat
      OBVIOUS
    <2>2. \A u \in Threads : proc'.hand[u] \in 0 .. Len(made')
      <3> TAKE u \in Threads
      <3>1. proc.hand[u] \in 0 .. Len(made)
        BY DEF RunsKnown
      <3>2. proc.hand[u] \in 0 .. Len(made')
        BY <2>1, <3>1
      <3>3. QED
        BY <3>2
    <2>3. \A u \in Threads : proc'.pc[u] \in {"flush", "join"} => proc'.hand[u] # 0
      <3> TAKE u \in Threads
      <3>1. CASE u = t
        BY <1>2, <3>1
      <3>2. CASE u # t
        <4>1. proc'.pc[u] = proc.pc[u] /\ proc'.hand[u] = proc.hand[u]
          BY <1>1, <3>2
        <4>2. proc.pc[u] \in {"flush", "join"} => proc.hand[u] # 0
          BY DEF RunsKnown
        <4>3. QED
          BY <4>1, <4>2
      <3>3. QED
        BY <3>1, <3>2
    <2>4. proc'.dying \in 0 .. Len(made') /\ (proc'.handler \in {"flush", "join"} => proc'.dying # 0)
      BY <2>1 DEF RunsKnown
    <2>5. QED
      BY <2>2, <2>3, <2>4 DEF RunsKnown
  <1>5. Holders'
    BY <1>1, <1>2 DEF Holders
  <1>6. proc'.active = proc.active \/ proc.handler \notin {"flush", "join"}
    BY DEF Holders, Free
  <1>7. Owners'
    <2> SUFFICES ASSUME NEW l \in Locks, NEW u \in Threads, proc'.owner[l] = u
                 PROVE  \/ l = "REPLACED_HANDLERS" /\ proc'.pc[u] \in HandlersHeld
                        \/ l = proc'.at[u] /\ proc'.pc[u] \in {"flush", "join"}
                        \/ /\ u = proc'.main /\ proc'.handler \in {"flush", "join"}
                           /\ l \in {"ACTIVE", proc'.active}
      BY DEF Owners
    <2>1. proc.owner[l] = u
      OBVIOUS
    <2>2. CASE u = t
      BY <2>1, <2>2 DEF Owners, Runs
    <2>3. CASE u # t
      BY <1>1, <1>6, <2>1, <2>3 DEF Owners
    <2>4. QED
      BY <2>2, <2>3
  <1>8. GilKept'
    BY <1>1, <1>2 DEF GilKept, Runs
  <1>9. Replaced'
    BY <1>1, <1>2 DEF Replaced
  <1>10. QED
    BY <1>3, <1>4, <1>5, <1>7, <1>8, <1>9

\* A step of nobody's call: the exporter's, or the user's.
LEMMA NoCallMoves ==
  ASSUME proc \in Process, proc' \in Process, Discipline, made' = made,
         proc'.pc = proc.pc, proc'.at = proc.at, SameRuns, SameHandlers,
         \A l \in Locks : proc'.owner[l] = proc.owner[l] \/ (l = "RECORDERS" /\ proc'.owner[l] \notin Threads),
         proc'.active = proc.active, proc'.gil = proc.gil \/ proc.gil = NoOne
  PROVE  Discipline'
  <1> USE ProcessFields, LocksDiffer DEF Discipline, SameRuns, SameHandlers
  <1>1. SelfInCall' /\ RunsKnown' /\ Replaced'
    BY DEF SelfInCall, RunsKnown, Replaced
  <1>2. Owners'
    BY DEF Owners
  <1>3. Holders'
    BY DEF Holders
  <1>4. GilKept'
    BY DEF GilKept
  <1>5. QED
    BY <1>1, <1>2, <1>3, <1>4

---------------------------------------------------------------------------
(* Every action of a call that takes no mutex with it, or gives none back.  *)

\* The rest of TypeOK, for a step that makes and finishes no run.
LEMMA HistoryKept ==
  ASSUME IInv, UNCHANGED history, proc' \in Process, Discipline'
  PROVE  IInv'
  BY DEF IInv, TypeOK, history

LEMMA CallMovesQuietly ==
  ASSUME IInv, proc' \in Process, UNCHANGED history, NEW t \in Threads, Runs(t),
         NEW to \in Unlocked, NEW self, proc.pc[t] \in Unlocked, to \in InCall => self \in Tracers,
         Moves(t, to, self), SameHandlers, SameRuns, proc'.owner = proc.owner,
         proc'.active = proc.active \/ Free("ACTIVE")
  PROVE  IInv'
  <1>1. proc \in Process /\ made \in Seq(Tracers) /\ made' = made /\ Discipline
    BY DEF IInv, TypeOK, history
  <1>2. Len(made) \in Nat
    BY <1>1
  <1>3. \A tr \in Tracers : proc'.slot[tr] \in 0 .. Len(made')
    BY <1>1 DEF SameRuns, Discipline, RunsKnown
  <1>4. \A u \in Threads : proc'.hand[u] = proc.hand[u]
    BY DEF SameRuns
  <1>5. Discipline'
    BY <1>1, <1>2, <1>3, <1>4, CallMoves
  <1>6. QED
    BY <1>5, HistoryKept

LEMMA EnterTypes ==
  ASSUME NEW p \in Process, NEW t \in Threads, NEW self \in Tracers, NEW step \in Steps,
         NEW crossed \in BOOLEAN, NEW overlap \in BOOLEAN, NEW env \in Tracers \cup {NoTracer}
  PROVE  [p EXCEPT !.env = env, !.crossed = crossed, !.overlap = overlap,
                   !.pc[t] = step, !.at[t] = self] \in Process
  BY ZenonT(60) DEF Process

LEMMA CallEnterKeeps ==
  ASSUME IInv, NEW t \in Threads, NEW tr \in Tracers, CallEnter(t, tr)
  PROVE  IInv'
  <1>1. proc \in Process /\ Runs(t) /\ proc.pc[t] = "idle" /\ UNCHANGED history
    BY DEF CallEnter, At, IInv, TypeOK
  <1>2. proc' \in Process
    <2>1. (proc.crossed \/ Crosses(t)) \in BOOLEAN /\ (proc.overlap \/ Forking(t)) \in BOOLEAN
      OBVIOUS
    <2>2. Advertised(tr) \in Tracers \cup {NoTracer} /\ "begin" \in Steps
      BY DEF Advertised, Steps
    <2>3. QED
      BY <1>1, <2>1, <2>2, EnterTypes, Zenon DEF CallEnter
  <1>3. /\ Moves(t, "begin", tr) /\ SameHandlers /\ SameRuns
        /\ proc'.owner = proc.owner /\ proc'.active = proc.active
    BY <1>1 DEF CallEnter, Process, Moves, SameHandlers, SameRuns
  <1>4. QED
    BY <1>1, <1>2, <1>3, CallMovesQuietly DEF Unlocked, Steps, HandlersHeld

LEMMA BeginKeeps ==
  ASSUME IInv, NEW t \in Threads, Begin(t)
  PROVE  IInv'
  <1>1. /\ proc \in Process /\ Runs(t) /\ proc.pc[t] = "begin" /\ Discipline
        /\ made \in Seq(Tracers) /\ Self(t) \in Tracers
    BY DEF Begin, At, IInv, TypeOK, Discipline, SelfInCall, Self, InCall, Steps
  <1>2. /\ made' \in Seq(Tracers) /\ Len(made') = Len(made) + 1 /\ Len(made) \in Nat
        /\ NextRun = Len(made')
    BY <1>1 DEF Begin, NewRun, NextRun
  <1> DEFINE run == NextRun
  <1>3. proc' = [proc EXCEPT !.tool = run, !.hand[t] = run, !.hooks = TRUE,
                             !.pc[t] = "takeOver", !.gil = t]
    BY DEF Begin
  <1>4. run \in 0 .. Len(made') /\ run \in Nat
    BY <1>2
  <1> HIDE DEF run
  <1>5. proc' \in Process
    BY <1>1, <1>3, <1>4, ZenonT(60) DEF Process, Steps
  <1>6. /\ Moves(t, "takeOver", proc.at[t]) /\ SameHandlers
        /\ proc'.hand = [proc.hand EXCEPT ![t] = run] /\ proc'.slot = proc.slot
        /\ proc'.owner = proc.owner /\ proc'.active = proc.active
    BY <1>1, <1>3 DEF Process, Moves, SameHandlers
  <1>7. \A u \in Threads : proc'.hand[u] = proc.hand[u] \/ (u = t /\ proc'.hand[u] \in 0 .. Len(made'))
    BY <1>1, <1>4, <1>6, ProcessFields
  <1>8. \A tr \in Tracers : proc'.slot[tr] \in 0 .. Len(made')
    BY <1>1, <1>2, <1>6 DEF Discipline, RunsKnown
  <1>9. Discipline'
    BY <1>1, <1>2, <1>5, <1>6, <1>7, <1>8, CallMoves DEF Unlocked, Steps, HandlersHeld, Self
  <1>10. QED
    BY <1>2, <1>5, <1>9 DEF Begin, IInv, TypeOK

LEMMA BeginFailsKeeps ==
  ASSUME IInv, NEW t \in Threads, BeginFails(t)
  PROVE  IInv'
  <1>1. proc \in Process /\ Runs(t) /\ proc.pc[t] = "begin" /\ UNCHANGED history
    BY DEF BeginFails, At, IInv, TypeOK
  <1>2. proc' \in Process
    BY <1>1, ZenonT(60) DEF BeginFails, Process, Steps
  <1>3. /\ Moves(t, "idle", NoTracer) /\ SameHandlers /\ SameRuns
        /\ proc'.owner = proc.owner /\ proc'.active = proc.active
    BY <1>1 DEF BeginFails, Process, Moves, SameHandlers, SameRuns
  <1>4. QED
    BY <1>1, <1>2, <1>3, CallMovesQuietly DEF Unlocked, Steps, HandlersHeld, InCall

LEMMA InstallKeeps ==
  ASSUME IInv, NEW t \in Threads, Install(t)
  PROVE  IInv'
  <1>1. /\ proc \in Process /\ Runs(t) /\ proc.pc[t] = "install" /\ Discipline
        /\ made \in Seq(Tracers) /\ UNCHANGED history /\ Self(t) \in Tracers
    BY DEF Install, At, IInv, TypeOK, Discipline, SelfInCall, Self, InCall, Steps
  <1>2. proc' \in Process
    BY <1>1, ZenonT(60) DEF Install, Process, Steps
  <1>3. /\ Moves(t, "publish", proc.at[t]) /\ SameHandlers
        /\ proc'.slot = [proc.slot EXCEPT ![Self(t)] = proc.hand[t]]
        /\ proc'.hand = [proc.hand EXCEPT ![t] = 0]
        /\ proc'.owner = proc.owner /\ proc'.active = proc.active
    BY <1>1 DEF Install, Process, Moves, SameHandlers
  <1>4. made' = made /\ Len(made) \in Nat
    BY <1>1 DEF history
  <1>5. \A tr \in Tracers : proc'.slot[tr] \in 0 .. Len(made')
    BY <1>1, <1>3, <1>4, ProcessFields DEF Discipline, RunsKnown
  <1>6. \A u \in Threads : proc'.hand[u] = proc.hand[u] \/ (u = t /\ proc'.hand[u] \in 0 .. Len(made'))
    BY <1>1, <1>3, <1>4, ProcessFields
  <1>7. Discipline'
    BY <1>1, <1>2, <1>3, <1>4, <1>5, <1>6, CallMoves DEF Unlocked, Steps, HandlersHeld, Self
  <1>8. QED
    BY <1>1, <1>2, <1>7, HistoryKept

LEMMA PublishTypes ==
  ASSUME NEW p \in Process, NEW t \in Threads, NEW active \in Tracers \cup {NoTracer}, NEW step \in Steps,
         NEW self \in Tracers \cup {NoTracer}, NEW entered \in Seq(Tracers), NEW gil \in Threads \cup {NoOne}
  PROVE  [p EXCEPT !.active = active, !.entered = entered,
                   !.pc[t] = step, !.at[t] = self, !.gil = gil] \in Process
  BY ZenonT(60) DEF Process

LEMMA ClearTypes ==
  ASSUME NEW p \in Process, NEW t \in Threads, NEW active \in Tracers \cup {NoTracer}, NEW step \in Steps,
         NEW gil \in Threads \cup {NoOne}
  PROVE  [p EXCEPT !.active = active, !.pc[t] = step, !.gil = gil] \in Process
  BY ZenonT(60) DEF Process

LEMMA PublishKeeps ==
  ASSUME IInv, NEW t \in Threads, Publish(t)
  PROVE  IInv'
  <1>1. /\ proc \in Process /\ Runs(t) /\ proc.pc[t] = "publish" /\ UNCHANGED history
        /\ Self(t) \in Tracers /\ Free("ACTIVE")
    BY DEF Publish, At, IInv, TypeOK, Discipline, SelfInCall, Self, InCall, Steps
  <1>2. proc' \in Process
    <2>1. Append(proc.entered, Self(t)) \in Seq(Tracers)
      BY <1>1 DEF Process
    <2>2. proc' = [proc EXCEPT !.active = Self(t), !.entered = Append(proc.entered, Self(t)),
                               !.pc[t] = "idle", !.at[t] = NoTracer, !.gil = NoOne]
      BY DEF Publish
    <2>3. QED
      BY <1>1, <2>1, <2>2, PublishTypes DEF Steps
  <1>3. Moves(t, "idle", NoTracer) /\ SameHandlers /\ SameRuns /\ proc'.owner = proc.owner
    BY <1>1 DEF Publish, Process, Moves, SameHandlers, SameRuns
  <1>4. QED
    BY <1>1, <1>2, <1>3, CallMovesQuietly DEF Unlocked, Steps, HandlersHeld, InCall

LEMMA ExitTypes ==
  ASSUME NEW p \in Process, NEW t \in Threads, NEW self \in Tracers, NEW step \in Steps,
         NEW crossed \in BOOLEAN, NEW overlap \in BOOLEAN, NEW entered \in Seq(Tracers)
  PROVE  [p EXCEPT !.entered = entered, !.at[t] = self, !.crossed = crossed,
                   !.overlap = overlap, !.pc[t] = step] \in Process
  BY ZenonT(60) DEF Process

LEMMA CallExitKeeps ==
  ASSUME IInv, NEW t \in Threads, CallExit(t)
  PROVE  IInv'
  <1>1. /\ proc \in Process /\ Runs(t) /\ proc.pc[t] = "idle" /\ UNCHANGED history
        /\ proc.entered # <<>>
    BY DEF CallExit, At, IInv, TypeOK
  <1> DEFINE depth == Len(proc.entered)
             self == proc.entered[depth]
             entered == SubSeq(proc.entered, 1, depth - 1)
  <1>2. self \in Tracers /\ entered \in Seq(Tracers)
    <2>1. proc.entered \in Seq(Tracers)
      BY <1>1 DEF Process
    <2>2. depth \in 1 .. depth
      BY <1>1, <2>1
    <2>3. QED
      BY <2>1, <2>2
  <1>3. proc' = [proc EXCEPT !.entered = entered, !.at[t] = self,
                             !.crossed = proc.crossed \/ Crosses(t),
                             !.overlap = proc.overlap \/ Forking(t), !.pc[t] = "clear"]
    BY DEF CallExit
  <1> HIDE DEF self, entered
  <1>4. proc' \in Process
    <2>1. (proc.crossed \/ Crosses(t)) \in BOOLEAN /\ (proc.overlap \/ Forking(t)) \in BOOLEAN
      OBVIOUS
    <2>2. "clear" \in Steps
      BY DEF Steps
    <2>3. QED
      BY <1>1, <1>2, <1>3, <2>1, <2>2, ExitTypes, Zenon
  <1>5. /\ Moves(t, "clear", self) /\ SameHandlers /\ SameRuns
        /\ proc'.owner = proc.owner /\ proc'.active = proc.active
    BY <1>1, <1>3 DEF Process, Moves, SameHandlers, SameRuns
  <1>6. QED
    BY <1>1, <1>2, <1>4, <1>5, CallMovesQuietly DEF Unlocked, Steps, HandlersHeld

LEMMA ClearKeeps ==
  ASSUME IInv, NEW t \in Threads, Clear(t)
  PROVE  IInv'
  <1>1. /\ proc \in Process /\ Runs(t) /\ proc.pc[t] = "clear" /\ UNCHANGED history
        /\ Self(t) \in Tracers /\ Free("ACTIVE")
    BY DEF Clear, At, IInv, TypeOK, Discipline, SelfInCall, Self, InCall, Steps
  <1>2. proc' \in Process
    BY <1>1, ClearTypes DEF Clear, Steps
  <1>3. Moves(t, "handBack", proc.at[t]) /\ SameHandlers /\ SameRuns /\ proc'.owner = proc.owner
    BY <1>1 DEF Clear, Process, Moves, SameHandlers, SameRuns
  <1>4. QED
    BY <1>1, <1>2, <1>3, CallMovesQuietly DEF Unlocked, Steps, HandlersHeld, Self

LEMMA StopAdvertisingKeeps ==
  ASSUME IInv, NEW t \in Threads, StopAdvertising(t)
  PROVE  IInv'
  <1>1. /\ proc \in Process /\ Runs(t) /\ proc.pc[t] = "stop" /\ UNCHANGED history
        /\ Self(t) \in Tracers
    BY DEF StopAdvertising, At, IInv, TypeOK, Discipline, SelfInCall, Self, InCall, Steps
  <1>2. proc' \in Process
    BY <1>1, ZenonT(60) DEF StopAdvertising, Process, Steps
  <1>3. /\ Moves(t, "take", proc.at[t]) /\ SameHandlers /\ SameRuns
        /\ proc'.owner = proc.owner /\ proc'.active = proc.active
    BY <1>1 DEF StopAdvertising, Process, Moves, SameHandlers, SameRuns
  <1>4. QED
    BY <1>1, <1>2, <1>3, CallMovesQuietly DEF Unlocked, Steps, HandlersHeld, Self

LEMMA CallUseKeeps ==
  ASSUME IInv, NEW t \in Threads, NEW tr \in Tracers, CallUse(t, tr)
  PROVE  IInv'
  <1>1. proc \in Process /\ Runs(t) /\ proc.pc[t] = "idle" /\ UNCHANGED history
    BY DEF CallUse, At, IInv, TypeOK
  <1>2. proc' \in Process
    BY <1>1, ZenonT(60) DEF CallUse, Process, Steps
  <1>3. /\ Moves(t, "use", tr) /\ SameHandlers /\ SameRuns
        /\ proc'.owner = proc.owner /\ proc'.active = proc.active
    BY <1>1 DEF CallUse, Process, Moves, SameHandlers, SameRuns
  <1>4. QED
    BY <1>1, <1>2, <1>3, CallMovesQuietly DEF Unlocked, Steps, HandlersHeld

LEMMA UseKeeps ==
  ASSUME IInv, NEW t \in Threads, Use(t)
  PROVE  IInv'
  <1>1. proc \in Process /\ Runs(t) /\ proc.pc[t] = "use" /\ UNCHANGED history
    BY DEF Use, At, IInv, TypeOK
  <1>2. proc' \in Process
    BY <1>1, ZenonT(60) DEF Use, Process, Steps
  <1>3. /\ Moves(t, "idle", NoTracer) /\ SameHandlers /\ SameRuns
        /\ proc'.owner = proc.owner /\ proc'.active = proc.active
    BY <1>1 DEF Use, Process, Moves, SameHandlers, SameRuns
  <1>4. QED
    BY <1>1, <1>2, <1>3, CallMovesQuietly DEF Unlocked, Steps, HandlersHeld, InCall

LEMMA ForkTypes ==
  ASSUME NEW p \in Process, NEW t \in Threads, NEW step \in Steps, NEW overlap \in BOOLEAN
  PROVE  [p EXCEPT !.pc[t] = step, !.overlap = overlap] \in Process
  BY ZenonT(60) DEF Process

LEMMA CallForkKeeps ==
  ASSUME IInv, NEW t \in Threads, CallFork(t)
  PROVE  IInv'
  <1>1. proc \in Process /\ Runs(t) /\ proc.pc[t] = "idle" /\ UNCHANGED history
    BY DEF CallFork, At, IInv, TypeOK
  <1>2. PICK to \in {"beforeFork", "forking"} :
          /\ to = IF proc.hooks THEN "beforeFork" ELSE "forking"
          /\ proc' = [proc EXCEPT !.pc[t] = to,
                       !.overlap = proc.overlap \/ Crosses(t) \/ Forking(t) \/ proc.handler # "none"]
    <2> DEFINE step == IF proc.hooks THEN "beforeFork" ELSE "forking"
    <2>1. step \in {"beforeFork", "forking"}
      OBVIOUS
    <2>2. proc' = [proc EXCEPT !.pc[t] = step,
                    !.overlap = proc.overlap \/ Crosses(t) \/ Forking(t) \/ proc.handler # "none"]
      BY DEF CallFork
    <2>3. QED
      BY <2>1, <2>2, Zenon
  <1>3. proc' \in Process
    <2>1. (proc.overlap \/ Crosses(t) \/ Forking(t) \/ proc.handler # "none") \in BOOLEAN
      OBVIOUS
    <2>2. to \in Steps
      BY DEF Steps
    <2>3. QED
      BY <1>1, <1>2, <2>1, <2>2, ForkTypes, Zenon
  <1>4. /\ Moves(t, to, proc.at[t]) /\ SameHandlers /\ SameRuns
        /\ proc'.owner = proc.owner /\ proc'.active = proc.active
    BY <1>1, <1>2 DEF Process, Moves, SameHandlers, SameRuns
  <1>5. QED
    BY <1>1, <1>3, <1>4, CallMovesQuietly DEF Unlocked, Steps, HandlersHeld, InCall

LEMMA MonitorTypes ==
  ASSUME NEW p \in Process, NEW t \in Threads, NEW step \in Steps, NEW monitored \in SUBSET Tracers,
         NEW tool \in Nat, NEW gil \in Threads \cup {NoOne}
  PROVE  [p EXCEPT !.monitored = monitored, !.tool = tool, !.pc[t] = step, !.gil = gil] \in Process
  BY ZenonT(60) DEF Process

LEMMA ChildTypes ==
  ASSUME NEW p \in Process, NEW t \in Threads, NEW step \in Steps, NEW monitored \in SUBSET Tracers,
         NEW tool \in Nat, NEW gil \in Threads \cup {NoOne}, NEW slot \in [Tracers -> Nat],
         NEW bare \in SUBSET Nat
  PROVE  [p EXCEPT !.slot = slot, !.monitored = monitored, !.tool = tool, !.bare = bare,
                   !.pc[t] = step, !.gil = gil] \in Process
  BY ZenonT(60) DEF Process

LEMMA BeforeForkKeeps ==
  ASSUME IInv, NEW t \in Threads, BeforeFork(t)
  PROVE  IInv'
  <1>1. proc \in Process /\ Runs(t) /\ proc.pc[t] = "beforeFork" /\ UNCHANGED history
    BY DEF BeforeFork, At, IInv, TypeOK
  <1> DEFINE monitored == IF ActiveRuns THEN proc.monitored \ {proc.active} ELSE proc.monitored
             tool == IF ActiveRuns THEN ToolWithout(proc.active) ELSE proc.tool
  <1>2. monitored \in SUBSET Tracers /\ tool \in Nat
    BY <1>1 DEF Process, ToolWithout
  <1>3. proc' = [proc EXCEPT !.monitored = monitored, !.tool = tool,
                             !.pc[t] = "forking", !.gil = NoOne]
    BY DEF BeforeFork
  <1> HIDE DEF monitored, tool
  <1>4. proc' \in Process
    BY <1>1, <1>2, <1>3, MonitorTypes DEF Steps
  <1>5. /\ Moves(t, "forking", proc.at[t]) /\ SameHandlers /\ SameRuns
        /\ proc'.owner = proc.owner /\ proc'.active = proc.active
    BY <1>1, <1>3 DEF Process, Moves, SameHandlers, SameRuns
  <1>6. QED
    BY <1>1, <1>4, <1>5, CallMovesQuietly DEF Unlocked, Steps, HandlersHeld, InCall

LEMMA ForkReturnsKeeps ==
  ASSUME IInv, NEW t \in Threads, ForkReturns(t)
  PROVE  IInv'
  <1>1. proc \in Process /\ Runs(t) /\ proc.pc[t] = "forking" /\ UNCHANGED history
    BY DEF ForkReturns, At, IInv, TypeOK
  <1>2. PICK to \in {"inParent", "idle"} : proc' = [proc EXCEPT !.pc[t] = to]
    BY DEF ForkReturns
  <1>3. proc' \in Process
    BY <1>1, <1>2, ZenonT(60) DEF Process, Steps
  <1>4. /\ Moves(t, to, proc.at[t]) /\ SameHandlers /\ SameRuns
        /\ proc'.owner = proc.owner /\ proc'.active = proc.active
    BY <1>1, <1>2 DEF Process, Moves, SameHandlers, SameRuns
  <1>5. QED
    BY <1>1, <1>3, <1>4, CallMovesQuietly DEF Unlocked, Steps, HandlersHeld, InCall

LEMMA AfterForkInParentKeeps ==
  ASSUME IInv, NEW t \in Threads, AfterForkInParent(t)
  PROVE  IInv'
  <1>1. proc \in Process /\ Runs(t) /\ proc.pc[t] = "inParent" /\ UNCHANGED history
    BY DEF AfterForkInParent, At, IInv, TypeOK
  <1> DEFINE enables == ActiveRuns /\ ToolIsFree
             monitored == IF enables THEN proc.monitored \cup {proc.active} ELSE proc.monitored
             tool == IF enables THEN proc.slot[proc.active] ELSE proc.tool
  <1>2. monitored \in SUBSET Tracers /\ tool \in Nat
    BY <1>1 DEF Process, ActiveRuns
  <1>3. proc' = [proc EXCEPT !.monitored = monitored, !.tool = tool, !.pc[t] = "idle", !.gil = NoOne]
    BY DEF AfterForkInParent
  <1> HIDE DEF monitored, tool
  <1>4. proc' \in Process
    <2>1. "idle" \in Steps /\ NoOne \in Threads \cup {NoOne}
      BY DEF Steps
    <2>2. QED
      BY <1>1, <1>2, <1>3, <2>1, MonitorTypes, Zenon
  <1>5. /\ Moves(t, "idle", proc.at[t]) /\ SameHandlers /\ SameRuns
        /\ proc'.owner = proc.owner /\ proc'.active = proc.active
    BY <1>1, <1>3 DEF Process, Moves, SameHandlers, SameRuns
  <1>6. QED
    BY <1>1, <1>4, <1>5, CallMovesQuietly DEF Unlocked, Steps, HandlersHeld, InCall

LEMMA AfterForkInChildKeeps ==
  ASSUME IInv, NEW t \in Threads, AfterForkInChild(t)
  PROVE  IInv'
  <1>1. /\ proc \in Process /\ Runs(t) /\ proc.pc[t] = "inChild" /\ Discipline
        /\ made \in Seq(Tracers) /\ UNCHANGED <<inherited, generation, finished>>
    BY DEF AfterForkInChild, At, IInv, TypeOK
  <1> DEFINE begins == proc.active \in Subprocesses /\ ToolIsFree
             slot == [x \in Tracers |-> IF x # proc.active THEN proc.slot[x] ELSE IF begins THEN NextRun ELSE 0]
             monitored == IF begins THEN proc.monitored \cup {proc.active}
                          ELSE proc.monitored \ {proc.active}
             tool == IF begins THEN NextRun ELSE proc.tool
             bare == IF begins /\ proc.disp = "default" THEN proc.bare \cup {NextRun} ELSE proc.bare
  <1>2. made' = IF begins THEN Append(made, proc.active) ELSE made
    BY DEF AfterForkInChild, NewRun
  <1>3. made' \in Seq(Tracers) /\ Len(made) \in Nat /\ Len(made') \in Nat /\ Len(made) <= Len(made')
    BY <1>1, <1>2, TracerAssumption
  <1>4. begins => NextRun = Len(made')
    BY <1>1, <1>2, TracerAssumption DEF NextRun
  <1>5. monitored \in SUBSET Tracers /\ tool \in Nat /\ bare \in SUBSET Nat
    BY <1>1, <1>3, <1>4, TracerAssumption DEF Process
  <1>6. /\ slot \in [Tracers -> Nat]
        /\ \A tr \in Tracers : slot[tr] \in 0 .. Len(made')
    <2>1. \A tr \in Tracers : slot[tr] \in 0 .. Len(made')
      BY <1>1, <1>3, <1>4 DEF Discipline, RunsKnown
    <2>2. QED
      BY <1>3, <2>1
  <1>7. proc' = [proc EXCEPT !.slot = slot, !.monitored = monitored, !.tool = tool,
                             !.bare = bare, !.pc[t] = "idle", !.gil = NoOne]
    BY DEF AfterForkInChild
  <1> HIDE DEF slot, monitored, tool, bare, begins
  <1>8. proc' \in Process
    <2>1. "idle" \in Steps /\ NoOne \in Threads \cup {NoOne}
      BY DEF Steps
    <2>2. QED
      BY <1>1, <1>5, <1>6, <1>7, <2>1, ChildTypes, Zenon
  <1>9. /\ Moves(t, "idle", proc.at[t]) /\ SameHandlers
        /\ proc'.slot = slot /\ proc'.hand = proc.hand
        /\ proc'.owner = proc.owner /\ proc'.active = proc.active
    BY <1>1, <1>7 DEF Process, Moves, SameHandlers
  <1>10. Discipline'
    BY <1>1, <1>3, <1>6, <1>8, <1>9, CallMoves DEF Unlocked, Steps, HandlersHeld, InCall
  <1>11. finished' \subseteq DOMAIN made' /\ inherited' \in 0 .. Len(made')
    BY <1>1, <1>3 DEF IInv, TypeOK
  <1>12. QED
    BY <1>1, <1>3, <1>8, <1>10, <1>11 DEF IInv, TypeOK

---------------------------------------------------------------------------
(* The steps under REPLACED_HANDLERS.                                       *)

LEMMA HandlerMoves ==
  ASSUME IInv, proc' \in Process, UNCHANGED history, NEW t \in Threads, Runs(t), proc.at[t] \in Tracers,
         proc.pc[t] \in HandlersHeld \/ (proc.pc[t] \in Unlocked /\ Free("REPLACED_HANDLERS")),
         NEW to \in Unlocked \cup HandlersHeld, Moves(t, to, proc.at[t]), SameRuns,
         proc'.main = proc.main, proc'.handler = proc.handler, proc'.dying = proc.dying,
         proc'.active = proc.active,
         proc'.owner = [proc.owner EXCEPT !["REPLACED_HANDLERS"] = IF to \in HandlersHeld THEN t ELSE NoOne],
         to = "installed" => t = proc.main /\ proc'.previous # "none",
         to = "handing" => proc'.saved # "none"
  PROVE  IInv'
  <1> USE ProcessFields, LocksDiffer DEF Discipline, Unlocked, HandlersHeld, Moves, SameRuns
  <1>1. proc \in Process /\ Discipline /\ made' = made
    BY DEF IInv, TypeOK, history
  <1>2. \A u \in Threads \ {t} : proc'.pc[u] = proc.pc[u] /\ proc'.at[u] = proc.at[u]
    BY <1>1
  <1>3. proc'.pc[t] = to /\ proc'.at[t] = proc.at[t]
    BY <1>1
  <1>4. /\ \A l \in Locks \ {"REPLACED_HANDLERS"} : proc'.owner[l] = proc.owner[l]
        /\ proc'.owner["REPLACED_HANDLERS"] = IF to \in HandlersHeld THEN t ELSE NoOne
    BY <1>1
  <1>5. \A u \in Threads \ {t} : proc.pc[u] \notin HandlersHeld
    BY <1>1 DEF Holders, Free
  <1>6. SelfInCall'
    BY <1>1, <1>2, <1>3 DEF SelfInCall
  <1>7. RunsKnown'
    BY <1>1, <1>2, <1>3 DEF RunsKnown
  <1>8. Owners'
    <2> SUFFICES ASSUME NEW l \in Locks, NEW u \in Threads, proc'.owner[l] = u
                 PROVE  \/ l = "REPLACED_HANDLERS" /\ proc'.pc[u] \in HandlersHeld
                        \/ l = proc'.at[u] /\ proc'.pc[u] \in {"flush", "join"}
                        \/ /\ u = proc'.main /\ proc'.handler \in {"flush", "join"}
                           /\ l \in {"ACTIVE", proc'.active}
      BY DEF Owners
    <2>1. CASE l = "REPLACED_HANDLERS"
      BY <1>3, <1>4, <2>1
    <2>2. CASE l # "REPLACED_HANDLERS" /\ u = t
      BY <1>1, <1>4, <2>2 DEF Owners, Runs
    <2>3. CASE l # "REPLACED_HANDLERS" /\ u # t
      BY <1>1, <1>2, <1>4, <2>3 DEF Owners
    <2>4. QED
      BY <2>1, <2>2, <2>3
  <1>9. Holders'
    BY <1>1, <1>2, <1>3, <1>4, <1>5 DEF Holders
  <1>10. GilKept'
    BY <1>1, <1>2, <1>3 DEF GilKept, Runs
  <1>11. Replaced'
    BY <1>1, <1>2, <1>3, <1>5 DEF Replaced
  <1>12. QED
    BY <1>6, <1>7, <1>8, <1>9, <1>10, <1>11, HistoryKept

LEMMA LockHandlersKeeps ==
  ASSUME IInv, NEW t \in Threads, LockHandlers(t)
  PROVE  IInv'
  <1>1. /\ proc \in Process /\ Runs(t) /\ proc.pc[t] = "takeOver" /\ UNCHANGED history
        /\ proc.at[t] \in Tracers /\ Free("REPLACED_HANDLERS")
    BY DEF LockHandlers, At, IInv, TypeOK, Discipline, SelfInCall, InCall, Steps
  <1>2. proc' \in Process
    BY <1>1, ZenonT(60) DEF LockHandlers, Process, Steps, Locks
  <1>3. /\ Moves(t, "asking", proc.at[t]) /\ SameRuns
        /\ proc'.owner = [proc.owner EXCEPT !["REPLACED_HANDLERS"] = t]
        /\ proc'.main = proc.main /\ proc'.handler = proc.handler /\ proc'.dying = proc.dying
        /\ proc'.active = proc.active
    BY <1>1 DEF LockHandlers, Process, Moves, SameRuns
  <1>4. QED
    BY <1>1, <1>2, <1>3, HandlerMoves DEF Unlocked, Steps, HandlersHeld

LEMMA PreviousTypes ==
  ASSUME NEW p \in Process, NEW t \in Threads, NEW step \in Steps,
         NEW previous \in {"none", "default", "user", "ignored"}, NEW gil \in Threads \cup {NoOne}
  PROVE  /\ [p EXCEPT !.previous = previous, !.disp = "ours", !.bare = {}, !.pc[t] = step] \in Process
         /\ [p EXCEPT !.saved = previous, !.previous = "none",
                      !.owner["REPLACED_HANDLERS"] = NoOne, !.pc[t] = step, !.gil = gil] \in Process
  <1>1. [p EXCEPT !.previous = previous, !.disp = "ours", !.bare = {}, !.pc[t] = step] \in Process
    BY ZenonT(60) DEF Process
  <1>2. [p EXCEPT !.saved = previous, !.previous = "none",
                  !.owner["REPLACED_HANDLERS"] = NoOne, !.pc[t] = step, !.gil = gil] \in Process
    BY ZenonT(60) DEF Process, Locks
  <1>3. QED
    BY <1>1, <1>2

LEMMA TakeOverKeeps ==
  ASSUME IInv, NEW t \in Threads, TakeOver(t)
  PROVE  IInv'
  <1>1. /\ proc \in Process /\ Runs(t) /\ proc.pc[t] = "asking" /\ UNCHANGED history
        /\ proc.at[t] \in Tracers /\ proc.owner["REPLACED_HANDLERS"] = t
        /\ t = proc.main /\ proc.disp \in {"default", "user", "ignored"}
    BY DEF TakeOver, TakesOver, At, IInv, TypeOK, Discipline, SelfInCall, Holders, HandlersHeld,
           InCall, Steps, Process
  <1>2. proc' \in Process
    <2>1. "installed" \in Steps /\ proc.disp \in {"none", "default", "user", "ignored"}
      BY <1>1 DEF Steps
    <2>2. QED
      BY <1>1, <2>1, PreviousTypes, ProcessFields, Zenon DEF TakeOver
  <1>3. /\ Moves(t, "installed", proc.at[t]) /\ SameRuns
        /\ proc'.owner = [proc.owner EXCEPT !["REPLACED_HANDLERS"] = t]
        /\ proc'.main = proc.main /\ proc'.handler = proc.handler /\ proc'.dying = proc.dying
        /\ proc'.active = proc.active /\ proc'.previous = proc.disp
    BY <1>1 DEF TakeOver, Process, Moves, SameRuns
  <1>4. QED
    BY <1>1, <1>2, <1>3, HandlerMoves DEF Unlocked, Steps, HandlersHeld

LEMMA LeaveTypes ==
  ASSUME NEW p \in Process, NEW t \in Threads, NEW step \in Steps, NEW gil \in Threads \cup {NoOne},
         NEW bare \in SUBSET Nat
  PROVE  [p EXCEPT !.bare = bare, !.owner["REPLACED_HANDLERS"] = NoOne,
                   !.pc[t] = step, !.gil = gil] \in Process
  BY ZenonT(60) DEF Process, Locks

LEMMA LeaveHandlersKeeps ==
  ASSUME IInv, NEW t \in Threads, LeaveHandlers(t)
  PROVE  IInv'
  <1>1. /\ proc \in Process /\ Runs(t) /\ proc.pc[t] = "asking" /\ UNCHANGED history
        /\ proc.at[t] \in Tracers
    BY DEF LeaveHandlers, At, IInv, TypeOK, Discipline, SelfInCall, InCall, Steps
  <1>2. proc' \in Process
    <2>1. "install" \in Steps
      BY DEF Steps
    <2>2. t \in Threads \cup {NoOne}
      OBVIOUS
    <2>3. PICK bare \in SUBSET Nat :
            proc' = [proc EXCEPT !.bare = bare, !.owner["REPLACED_HANDLERS"] = NoOne,
                                 !.pc[t] = "install", !.gil = t]
      <3> DEFINE kept == IF proc.disp = "default" THEN proc.bare \cup {proc.hand[t]} ELSE proc.bare
      <3>1. kept \in SUBSET Nat
        BY <1>1 DEF Process
      <3>2. proc' = [proc EXCEPT !.bare = kept, !.owner["REPLACED_HANDLERS"] = NoOne,
                                 !.pc[t] = "install", !.gil = t]
        BY DEF LeaveHandlers
      <3>3. QED
        BY <3>1, <3>2
    <2>4. QED
      BY <1>1, <2>1, <2>2, <2>3, LeaveTypes, Zenon
  <1>3. /\ Moves(t, "install", proc.at[t]) /\ SameRuns
        /\ proc'.owner = [proc.owner EXCEPT !["REPLACED_HANDLERS"] = NoOne]
        /\ proc'.main = proc.main /\ proc'.handler = proc.handler /\ proc'.dying = proc.dying
        /\ proc'.active = proc.active
    BY <1>1 DEF LeaveHandlers, Process, Moves, SameRuns
  <1>4. QED
    BY <1>1, <1>2, <1>3, HandlerMoves DEF Unlocked, Steps, HandlersHeld

LEMMA KeepPreviousKeeps ==
  ASSUME IInv, NEW t \in Threads, KeepPrevious(t)
  PROVE  IInv'
  <1>1. /\ proc \in Process /\ Runs(t) /\ proc.pc[t] = "installed" /\ UNCHANGED history
        /\ proc.at[t] \in Tracers
    BY DEF KeepPrevious, At, IInv, TypeOK, Discipline, SelfInCall, InCall, Steps
  <1>2. proc' \in Process
    <2>1. "install" \in Steps /\ proc.previous \in {"none", "default", "user", "ignored"}
      BY <1>1 DEF Steps, Process
    <2>2. t \in Threads \cup {NoOne}
      OBVIOUS
    <2>3. QED
      BY <1>1, <2>1, <2>2, PreviousTypes, Zenon DEF KeepPrevious
  <1>3. /\ Moves(t, "install", proc.at[t]) /\ SameRuns
        /\ proc'.owner = [proc.owner EXCEPT !["REPLACED_HANDLERS"] = NoOne]
        /\ proc'.main = proc.main /\ proc'.handler = proc.handler /\ proc'.dying = proc.dying
        /\ proc'.active = proc.active
    BY <1>1 DEF KeepPrevious, Process, Moves, SameRuns
  <1>4. QED
    BY <1>1, <1>2, <1>3, HandlerMoves DEF Unlocked, Steps, HandlersHeld

LEMMA LockToHandBackKeeps ==
  ASSUME IInv, NEW t \in Threads, LockToHandBack(t)
  PROVE  IInv'
  <1>1. /\ proc \in Process /\ Runs(t) /\ proc.pc[t] = "handBack" /\ UNCHANGED history
        /\ proc.at[t] \in Tracers /\ Free("REPLACED_HANDLERS")
    BY DEF LockToHandBack, At, IInv, TypeOK, Discipline, SelfInCall, InCall, Steps
  <1>2. CASE proc.saved = "none"
    <2>1. proc' = [proc EXCEPT !.pc[t] = "stop", !.gil = NoOne]
      BY <1>2 DEF LockToHandBack
    <2>2. proc' \in Process
      BY <1>1, <2>1, ZenonT(60) DEF Process, Steps
    <2>3. /\ Moves(t, "stop", proc.at[t]) /\ SameHandlers /\ SameRuns
          /\ proc'.owner = proc.owner /\ proc'.active = proc.active
      BY <1>1, <2>1 DEF Process, Moves, SameHandlers, SameRuns
    <2>4. QED
      BY <1>1, <2>2, <2>3, CallMovesQuietly DEF Unlocked, Steps, HandlersHeld
  <1>3. CASE proc.saved # "none"
    <2>1. proc' = [proc EXCEPT !.owner["REPLACED_HANDLERS"] = t, !.pc[t] = "handing", !.gil = NoOne]
      BY <1>3 DEF LockToHandBack
    <2>2. proc' \in Process
      BY <1>1, <2>1, ZenonT(60) DEF Process, Steps, Locks
    <2>3. /\ Moves(t, "handing", proc.at[t]) /\ SameRuns
          /\ proc'.owner = [proc.owner EXCEPT !["REPLACED_HANDLERS"] = t]
          /\ proc'.main = proc.main /\ proc'.handler = proc.handler /\ proc'.dying = proc.dying
          /\ proc'.active = proc.active /\ proc'.saved = proc.saved
      BY <1>1, <2>1 DEF Process, Moves, SameRuns
    <2>4. QED
      BY <1>1, <1>3, <2>2, <2>3, HandlerMoves DEF Unlocked, Steps, HandlersHeld
  <1>4. QED
    BY <1>2, <1>3

LEMMA HandBackTypes ==
  ASSUME NEW p \in Process, NEW t \in Threads, NEW step \in Steps, NEW elsewhere \in BOOLEAN,
         NEW disp \in {"default", "user", "ignored", "ours"}
  PROVE  [p EXCEPT !.saved = "none", !.disp = disp, !.elsewhere = elsewhere,
                   !.owner["REPLACED_HANDLERS"] = NoOne, !.pc[t] = step] \in Process
  BY ZenonT(60) DEF Process, Locks

LEMMA HandBackKeeps ==
  ASSUME IInv, NEW t \in Threads, HandBack(t)
  PROVE  IInv'
  <1>1. /\ proc \in Process /\ Runs(t) /\ proc.pc[t] = "handing" /\ UNCHANGED history
        /\ proc.at[t] \in Tracers /\ proc.saved # "none"
    BY DEF HandBack, At, IInv, TypeOK, Discipline, SelfInCall, Replaced, InCall, Steps
  <1> DEFINE disp == IF t = proc.main /\ proc.disp = "ours" THEN proc.saved ELSE proc.disp
  <1>2. disp \in {"default", "user", "ignored", "ours"}
    BY <1>1 DEF Process
  <1>3. proc' = [proc EXCEPT !.saved = "none", !.disp = disp, !.elsewhere = proc.elsewhere \/ t # proc.main,
                             !.owner["REPLACED_HANDLERS"] = NoOne, !.pc[t] = "stop"]
    BY DEF HandBack
  <1> HIDE DEF disp
  <1>4. proc' \in Process
    <2>1. (proc.elsewhere \/ t # proc.main) \in BOOLEAN
      OBVIOUS
    <2>2. "stop" \in Steps
      BY DEF Steps
    <2>3. QED
      BY <1>1, <1>2, <1>3, <2>1, <2>2, HandBackTypes, Zenon
  <1>5. /\ Moves(t, "stop", proc.at[t]) /\ SameRuns
        /\ proc'.owner = [proc.owner EXCEPT !["REPLACED_HANDLERS"] = NoOne]
        /\ proc'.main = proc.main /\ proc'.handler = proc.handler /\ proc'.dying = proc.dying
        /\ proc'.active = proc.active
    BY <1>1, <1>3 DEF Process, Moves, SameRuns
  <1>6. QED
    BY <1>1, <1>4, <1>5, HandlerMoves DEF Unlocked, Steps, HandlersHeld

---------------------------------------------------------------------------
(* The end of a run, by __exit__.                                           *)

LEMMA TakeTypes ==
  ASSUME NEW p \in Process, NEW t \in Threads, NEW self \in Tracers, NEW hand \in Nat, NEW tool \in Nat,
         NEW step \in Steps, NEW monitored \in SUBSET Tracers, NEW gil \in Threads \cup {NoOne}
  PROVE  [p EXCEPT !.owner[self] = t, !.hand[t] = hand, !.slot[self] = 0, !.tool = tool,
                   !.monitored = monitored, !.pc[t] = step, !.gil = gil] \in Process
  BY ZenonT(60) DEF Process, Locks

LEMMA TakeKeeps ==
  ASSUME IInv, NEW t \in Threads, Take(t)
  PROVE  IInv'
  <1>1. /\ proc \in Process /\ Runs(t) /\ proc.pc[t] = "take" /\ UNCHANGED history
        /\ Self(t) \in Tracers /\ Self(t) = proc.at[t] /\ Discipline /\ Free(Self(t))
    BY DEF Take, At, IInv, TypeOK, Discipline, SelfInCall, Self, InCall, Steps
  <1>2. CASE proc.slot[Self(t)] = 0
    <2>1. proc' = [proc EXCEPT !.pc[t] = "idle", !.at[t] = NoTracer]
      BY <1>2 DEF Take
    <2>2. proc' \in Process
      BY <1>1, <2>1, ZenonT(60) DEF Process, Steps
    <2>3. /\ Moves(t, "idle", NoTracer) /\ SameHandlers /\ SameRuns
          /\ proc'.owner = proc.owner /\ proc'.active = proc.active
      BY <1>1, <2>1 DEF Process, Moves, SameHandlers, SameRuns
    <2>4. QED
      BY <1>1, <2>2, <2>3, CallMovesQuietly DEF Unlocked, Steps, HandlersHeld, InCall
  <1>3. CASE proc.slot[Self(t)] # 0
    <2> DEFINE tool == ToolWithout(Self(t))
               run == proc.slot[Self(t)]
               monitored == proc.monitored \ {Self(t)}
    <2>1. tool \in Nat /\ monitored \in SUBSET Tracers
      BY <1>1 DEF ToolWithout, Process
    <2>2. run \in 0 .. Len(made) /\ run \in Nat /\ run # 0
      BY <1>1, <1>3, ProcessFields DEF Discipline, RunsKnown
    <2>3. proc' = [proc EXCEPT !.owner[Self(t)] = t, !.hand[t] = run, !.slot[Self(t)] = 0, !.tool = tool,
                               !.monitored = monitored, !.pc[t] = "flush", !.gil = t]
      BY <1>3 DEF Take
    <2> HIDE DEF tool, run, monitored
    <2>4. proc' \in Process
      <3>1. "flush" \in Steps /\ t \in Threads \cup {NoOne}
        BY DEF Steps
      <3>2. QED
        BY <1>1, <2>1, <2>2, <2>3, <3>1, TakeTypes, Zenon
    <2>5. /\ proc'.owner = [proc.owner EXCEPT ![Self(t)] = t]
          /\ proc'.hand = [proc.hand EXCEPT ![t] = run]
          /\ proc'.slot = [proc.slot EXCEPT ![Self(t)] = 0]
          /\ proc'.pc = [proc.pc EXCEPT ![t] = "flush"]
          /\ proc'.at = proc.at /\ proc'.active = proc.active /\ proc'.gil = t /\ SameHandlers
      BY <1>1, <2>3 DEF Process, SameHandlers
    <2> USE ProcessFields, LocksDiffer DEF Discipline, SameHandlers
    <2>6. made' = made
      BY <1>1 DEF history
    <2>7. SelfInCall'
      BY <1>1, <2>5 DEF SelfInCall, InCall, Steps
    <2>8. RunsKnown'
      <3>1. \A tr \in Tracers : proc'.slot[tr] \in 0 .. Len(made')
        BY <1>1, <2>2, <2>5, <2>6 DEF RunsKnown
      <3>2. \A u \in Threads : proc'.hand[u] \in 0 .. Len(made')
        BY <1>1, <2>2, <2>5, <2>6 DEF RunsKnown
      <3>3. \A u \in Threads : proc'.pc[u] \in {"flush", "join"} => proc'.hand[u] # 0
        BY <1>1, <2>2, <2>5 DEF RunsKnown
      <3>4. QED
        BY <1>1, <2>5, <2>6, <3>1, <3>2, <3>3 DEF RunsKnown
    <2>9. Owners'
      BY <1>1, <2>5 DEF Owners, Runs, HandlersHeld
    <2>10. Holders'
      BY <1>1, <2>5 DEF Holders, Free, HandlersHeld
    <2>11. GilKept'
      BY <1>1, <2>5 DEF GilKept, Runs
    <2>12. Replaced'
      BY <1>1, <2>5 DEF Replaced
    <2>13. QED
      BY <1>1, <2>4, <2>7, <2>8, <2>9, <2>10, <2>11, <2>12, HistoryKept
  <1>4. QED
    BY <1>2, <1>3

LEMMA FlushKeeps ==
  ASSUME IInv, NEW t \in Threads, Flush(t)
  PROVE  IInv'
  <1>1. /\ proc \in Process /\ Runs(t) /\ proc.pc[t] = "flush" /\ UNCHANGED history
        /\ Discipline /\ made' = made
    BY DEF Flush, At, IInv, TypeOK, history
  <1>2. proc' \in Process
    BY <1>1, ZenonT(60) DEF Flush, Process, Steps
  <1>3. /\ proc'.pc = [proc.pc EXCEPT ![t] = "join"] /\ proc'.at = proc.at
        /\ proc'.owner = proc.owner /\ proc'.active = proc.active /\ SameRuns /\ SameHandlers
    BY <1>1 DEF Flush, Process, SameRuns, SameHandlers
  <1> USE ProcessFields, LocksDiffer DEF Discipline, SameRuns, SameHandlers
  <1>4. SelfInCall'
    BY <1>1, <1>3 DEF SelfInCall, InCall, Steps
  <1>5. RunsKnown'
    BY <1>1, <1>3 DEF RunsKnown
  <1>6. Owners'
    BY <1>1, <1>3 DEF Owners, HandlersHeld
  <1>7. Holders'
    BY <1>1, <1>3 DEF Holders, HandlersHeld
  <1>8. GilKept'
    BY <1>1, <1>3 DEF GilKept, Runs
  <1>9. Replaced'
    BY <1>1, <1>3 DEF Replaced
  <1>10. QED
    BY <1>1, <1>2, <1>4, <1>5, <1>6, <1>7, <1>8, <1>9, HistoryKept

LEMMA JoinTypes ==
  ASSUME NEW p \in Process, NEW t \in Threads, NEW self, NEW step \in Steps
  PROVE  [p EXCEPT !.hand[t] = 0, !.owner[self] = NoOne,
                   !.pc[t] = step, !.at[t] = NoTracer] \in Process
  BY ZenonT(60) DEF Process

LEMMA JoinKeeps ==
  ASSUME IInv, NEW t \in Threads, Join(t)
  PROVE  IInv'
  <1>1. /\ proc \in Process /\ Runs(t) /\ proc.pc[t] = "join" /\ Self(t) \in Tracers
        /\ Self(t) = proc.at[t] /\ Discipline /\ UNCHANGED <<made, inherited, generation>>
    BY DEF Join, At, IInv, TypeOK, Discipline, SelfInCall, Self, InCall, Steps
  <1>2. proc' \in Process
    BY <1>1, JoinTypes DEF Join, Steps
  <1>3. /\ proc'.pc = [proc.pc EXCEPT ![t] = "idle"] /\ proc'.at = [proc.at EXCEPT ![t] = NoTracer]
        /\ proc'.owner = [proc.owner EXCEPT ![Self(t)] = NoOne]
        /\ proc'.hand = [proc.hand EXCEPT ![t] = 0] /\ proc'.slot = proc.slot
        /\ proc'.active = proc.active /\ proc'.gil = proc.gil /\ SameHandlers
    BY <1>1 DEF Join, Process, SameHandlers
  <1> USE ProcessFields, LocksDiffer DEF Discipline, SameHandlers
  <1>4. SelfInCall'
    BY <1>1, <1>3 DEF SelfInCall, InCall
  <1>5. RunsKnown'
    <2>1. 0 \in 0 .. Len(made)
      BY DEF IInv, TypeOK
    <2>2. QED
      BY <1>1, <1>3, <2>1 DEF RunsKnown
  <1>6. Owners'
    BY <1>1, <1>3 DEF Owners, Runs, HandlersHeld
  <1>7. Holders'
    BY <1>1, <1>3 DEF Holders, HandlersHeld
  <1>8. GilKept'
    BY <1>1, <1>3 DEF GilKept
  <1>9. Replaced'
    BY <1>1, <1>3 DEF Replaced
  <1>10. finished' \subseteq DOMAIN made
    <2>1. proc.hand[t] \in DOMAIN made
      BY <1>1 DEF RunsKnown, IInv, TypeOK
    <2>2. QED
      BY <2>1 DEF Join, IInv, TypeOK
  <1>11. QED
    BY <1>1, <1>2, <1>4, <1>5, <1>6, <1>7, <1>8, <1>9, <1>10 DEF IInv, TypeOK

---------------------------------------------------------------------------
(* The exporter, who waits, and the user.                                   *)

LEMMA ReadTailsKeeps ==
  ASSUME IInv, NEW r \in DOMAIN made, ReadTails(r) \/ ReadTailsEnd(r)
  PROVE  IInv'
  <1>1. PICK who \in {Exporter, NoOne} : proc' = [proc EXCEPT !.owner["RECORDERS"] = who]
    BY DEF ReadTails, ReadTailsEnd
  <1>2. proc \in Process /\ UNCHANGED history /\ Discipline
    BY DEF IInv, TypeOK, ReadTails, ReadTailsEnd
  <1>3. proc' \in Process
    BY <1>1, <1>2, ZenonT(60) DEF Process, Locks
  <1>4. /\ proc'.pc = proc.pc /\ proc'.at = proc.at /\ SameRuns /\ SameHandlers
        /\ proc'.owner = [proc.owner EXCEPT !["RECORDERS"] = who]
        /\ proc'.active = proc.active /\ proc'.gil = proc.gil
    BY <1>1, <1>2 DEF Process, SameRuns, SameHandlers
  <1>5. \A l \in Locks : proc'.owner[l] = proc.owner[l] \/ (l = "RECORDERS" /\ proc'.owner[l] \notin Threads)
    BY <1>2, <1>4, ProcessFields, LocksDiffer
  <1>6. Discipline'
    BY <1>2, <1>3, <1>4, <1>5, NoCallMoves DEF history
  <1>7. QED
    BY <1>2, <1>3, <1>6, HistoryKept

LEMMA WaitsKeeps ==
  ASSUME IInv, NEW t \in Threads, Waits(t)
  PROVE  IInv'
  <1>1. proc \in Process /\ UNCHANGED history /\ Discipline /\ proc.gil = NoOne
    BY DEF IInv, TypeOK, Waits
  <1>2. proc' \in Process
    BY <1>1, ZenonT(60) DEF Waits, Process
  <1>3. /\ proc'.pc = proc.pc /\ proc'.at = proc.at /\ SameRuns /\ SameHandlers
        /\ proc'.owner = proc.owner /\ proc'.active = proc.active
    BY <1>1 DEF Waits, Process, SameRuns, SameHandlers
  <1>4. Discipline'
    BY <1>1, <1>2, <1>3, NoCallMoves DEF history
  <1>5. QED
    BY <1>1, <1>2, <1>4, HistoryKept

LEMMA UserHandlesKeeps ==
  ASSUME IInv, UserHandles
  PROVE  IInv'
  <1>1. proc \in Process /\ UNCHANGED history /\ Discipline
    BY DEF IInv, TypeOK, UserHandles
  <1>2. proc' \in Process
    BY <1>1, ZenonT(60) DEF UserHandles, Process
  <1>3. /\ proc'.pc = proc.pc /\ proc'.at = proc.at /\ SameRuns /\ SameHandlers
        /\ proc'.owner = proc.owner /\ proc'.active = proc.active /\ proc'.gil = proc.gil
    BY <1>1 DEF UserHandles, Process, SameRuns, SameHandlers
  <1>4. Discipline'
    BY <1>1, <1>2, <1>3, NoCallMoves DEF history
  <1>5. QED
    BY <1>1, <1>2, <1>4, HistoryKept

---------------------------------------------------------------------------
(* The signal handler.                                                      *)

\* A step of the handler before it has begun to end a run.
LEMMA SignalMoves ==
  ASSUME IInv, proc' \in Process, UNCHANGED history, proc.gil \in {NoOne, proc.main},
         \A u \in Threads : proc.pc[u] # "flush",
         proc'.pc = proc.pc, proc'.at = proc.at, SameRuns, proc'.owner = proc.owner,
         proc'.main = proc.main, proc'.saved = proc.saved, proc'.previous = proc.previous,
         proc'.dying = proc.dying, proc'.active = proc.active,
         proc.handler \notin {"flush", "join"}, proc'.handler \notin {"flush", "join"},
         proc'.handler = "ending" => proc'.gil = proc'.main
  PROVE  IInv'
  <1> USE ProcessFields, LocksDiffer DEF Discipline, SameRuns
  <1>1. proc \in Process /\ Discipline /\ made' = made
    BY DEF IInv, TypeOK, history
  <1>2. SelfInCall' /\ RunsKnown' /\ Replaced'
    BY <1>1 DEF SelfInCall, RunsKnown, Replaced
  <1>3. Owners'
    BY <1>1 DEF Owners
  <1>4. Holders'
    BY <1>1 DEF Holders
  <1>5. GilKept'
    BY <1>1 DEF GilKept
  <1>6. QED
    BY <1>2, <1>3, <1>4, <1>5, HistoryKept

\* While the handler can take a step, nobody is about to flush.
LEMMA NobodyFlushes ==
  ASSUME IInv, proc.gil \in {NoOne, proc.main}, proc.gil = NoOne \/ proc.handler # "none"
  PROVE  \A u \in Threads : proc.pc[u] # "flush"
  BY LocksDiffer, ProcessFields DEF IInv, TypeOK, Discipline, GilKept

LEMMA DeliverTypes ==
  ASSUME NEW p \in Process, NEW signalled \in Nat, NEW overlap \in BOOLEAN
  PROVE  [p EXCEPT !.signalled = signalled, !.handler = "asked", !.overlap = overlap] \in Process
  BY ZenonT(60) DEF Process

LEMMA DeliverKeeps ==
  ASSUME IInv, Deliver
  PROVE  IInv'
  <1>1. proc \in Process /\ UNCHANGED history /\ proc.gil = NoOne /\ proc.handler = "none"
    BY DEF IInv, TypeOK, Deliver
  <1> DEFINE runs == Len(made)
  <1>2. proc' = [proc EXCEPT !.signalled = runs, !.handler = "asked",
                             !.overlap = proc.overlap \/ Forking(proc.main)]
    BY DEF Deliver
  <1>3. runs \in Nat
    BY DEF IInv, TypeOK
  <1> HIDE DEF runs
  <1>4. proc' \in Process
    <2>1. (proc.overlap \/ Forking(proc.main)) \in BOOLEAN
      OBVIOUS
    <2>2. QED
      BY <1>1, <1>2, <1>3, <2>1, DeliverTypes, Zenon
  <1>5. /\ proc'.pc = proc.pc /\ proc'.at = proc.at /\ SameRuns /\ proc'.owner = proc.owner
        /\ proc'.main = proc.main /\ proc'.saved = proc.saved /\ proc'.previous = proc.previous
        /\ proc'.dying = proc.dying /\ proc'.active = proc.active /\ proc'.handler = "asked"
    BY <1>1, <1>2 DEF Process, SameRuns
  <1>6. QED
    BY <1>1, <1>4, <1>5, NobodyFlushes, SignalMoves

LEMMA KilledKeeps ==
  ASSUME IInv, Killed
  PROVE  IInv'
  <1>1. proc \in Process /\ UNCHANGED history /\ Discipline
    BY DEF IInv, TypeOK, Killed
  <1> DEFINE runs == Len(made)
  <1>2. runs \in Nat /\ proc' = [proc EXCEPT !.status = "dead", !.signalled = runs]
    BY DEF IInv, TypeOK, Killed
  <1> HIDE DEF runs
  <1>3. proc' \in Process
    BY <1>1, <1>2, ZenonT(60) DEF Process
  <1>4. /\ proc'.pc = proc.pc /\ proc'.at = proc.at /\ SameRuns /\ SameHandlers
        /\ proc'.owner = proc.owner /\ proc'.active = proc.active /\ proc'.gil = proc.gil
    BY <1>1, <1>2 DEF Process, SameRuns, SameHandlers
  <1>5. Discipline'
    BY <1>1, <1>3, <1>4, NoCallMoves DEF history
  <1>6. QED
    BY <1>1, <1>3, <1>5, HistoryKept

LEMMA LookUpKeeps ==
  ASSUME IInv, LookUp
  PROVE  IInv'
  <1>1. /\ proc \in Process /\ UNCHANGED history /\ proc.gil \in {NoOne, proc.main}
        /\ proc.handler = "asked"
    BY DEF IInv, TypeOK, LookUp, Handles
  <1>2. CASE proc.saved = "default"
    <2>1. proc' = [proc EXCEPT !.handler = "ending", !.gil = proc.main]
      BY <1>2 DEF LookUp
    <2>2. proc' \in Process
      BY <1>1, <2>1, ZenonT(60) DEF Process
    <2>3. /\ proc'.pc = proc.pc /\ proc'.at = proc.at /\ SameRuns /\ proc'.owner = proc.owner
          /\ proc'.main = proc.main /\ proc'.saved = proc.saved /\ proc'.previous = proc.previous
          /\ proc'.dying = proc.dying /\ proc'.active = proc.active /\ proc'.handler = "ending"
          /\ proc'.gil = proc.main
      BY <1>1, <2>1 DEF Process, SameRuns
    <2>4. QED
      BY <1>1, <2>2, <2>3, NobodyFlushes, SignalMoves
  <1>3. CASE proc.saved # "default"
    <2>1. PICK disp \in {"default", "user", "ignored", "ours"} :
            proc' = [proc EXCEPT !.disp = disp, !.handler = "none", !.gil = NoOne]
      BY <1>1, <1>3 DEF LookUp, Process
    <2>2. proc' \in Process
      BY <1>1, <2>1, ZenonT(60) DEF Process
    <2>3. /\ proc'.pc = proc.pc /\ proc'.at = proc.at /\ SameRuns /\ proc'.owner = proc.owner
          /\ proc'.main = proc.main /\ proc'.saved = proc.saved /\ proc'.previous = proc.previous
          /\ proc'.dying = proc.dying /\ proc'.active = proc.active /\ proc'.handler = "none"
      BY <1>1, <2>1 DEF Process, SameRuns
    <2>4. QED
      BY <1>1, <2>2, <2>3, NobodyFlushes, SignalMoves
  <1>4. QED
    BY <1>2, <1>3

LEMMA RaiseKeeps ==
  ASSUME IInv, Raise
  PROVE  IInv'
  <1>1. proc \in Process /\ UNCHANGED history /\ Discipline
    BY DEF IInv, TypeOK, Raise
  <1>2. proc' \in Process
    BY <1>1, ZenonT(60) DEF Raise, Process
  <1>3. /\ proc'.pc = proc.pc /\ proc'.at = proc.at /\ SameRuns /\ SameHandlers
        /\ proc'.owner = proc.owner /\ proc'.active = proc.active /\ proc'.gil = proc.gil
    BY <1>1 DEF Raise, Process, SameRuns, SameHandlers
  <1>4. Discipline'
    BY <1>1, <1>2, <1>3, NoCallMoves DEF history
  <1>5. QED
    BY <1>1, <1>2, <1>4, HistoryKept

LEMMA EndTypes ==
  ASSUME NEW p \in Process, NEW self \in Tracers, NEW dying \in Nat, NEW tool \in Nat,
         NEW monitored \in SUBSET Tracers
  PROVE  [p EXCEPT !.owner["ACTIVE"] = p.main, !.owner[self] = p.main, !.dying = dying,
                   !.slot[self] = 0, !.tool = tool, !.monitored = monitored, !.handler = "flush"] \in Process
  BY ZenonT(60) DEF Process, Locks

LEMMA EndActiveKeeps ==
  ASSUME IInv, EndActive
  PROVE  IInv'
  <1> DEFINE tr == proc.active
  <1>1. /\ proc \in Process /\ UNCHANGED history /\ Discipline /\ proc.handler = "ending"
        /\ proc.gil = proc.main /\ proc.main \in Threads
    BY DEF IInv, TypeOK, EndActive, Handles, Discipline, GilKept, Process
  <1>2. \A u \in Threads : proc.pc[u] # "flush"
    BY <1>1, NobodyFlushes
  <1>3. CASE ~(ActiveFree /\ ActiveRuns)
    <2>1. proc' = [proc EXCEPT !.handler = "raise", !.gil = NoOne]
      BY <1>3 DEF EndActive
    <2>2. proc' \in Process
      BY <1>1, <2>1, ZenonT(60) DEF Process
    <2>3. /\ proc'.pc = proc.pc /\ proc'.at = proc.at /\ SameRuns /\ proc'.owner = proc.owner
          /\ proc'.main = proc.main /\ proc'.saved = proc.saved /\ proc'.previous = proc.previous
          /\ proc'.dying = proc.dying /\ proc'.active = proc.active /\ proc'.handler = "raise"
      BY <1>1, <2>1 DEF Process, SameRuns
    <2>4. QED
      BY <1>1, <1>2, <2>2, <2>3, SignalMoves
  <1>4. CASE ActiveFree /\ ActiveRuns
    <2> DEFINE tool == ToolWithout(tr)
               run == proc.slot[tr]
               monitored == proc.monitored \ {tr}
    <2>1. /\ tr \in Tracers /\ run \in 0 .. Len(made) /\ run \in Nat /\ run # 0
          /\ Free("ACTIVE") /\ Free(tr)
      BY <1>1, <1>4, ProcessFields DEF ActiveFree, ActiveRuns, Discipline, RunsKnown
    <2>2. tool \in Nat /\ monitored \in SUBSET Tracers
      BY <1>1, <2>1 DEF ToolWithout, Process
    <2>3. proc' = [proc EXCEPT !.owner["ACTIVE"] = proc.main, !.owner[tr] = proc.main,
                               !.dying = run, !.slot[tr] = 0, !.tool = tool,
                               !.monitored = monitored, !.handler = "flush"]
      BY <1>4 DEF EndActive
    <2> HIDE DEF tool, run, monitored
    <2>4. proc' \in Process
      BY <1>1, <2>1, <2>2, <2>3, EndTypes, Zenon
    <2>5. /\ proc'.owner = [proc.owner EXCEPT !["ACTIVE"] = proc.main, ![tr] = proc.main]
          /\ proc'.slot = [proc.slot EXCEPT ![tr] = 0] /\ proc'.hand = proc.hand
          /\ proc'.dying = run /\ proc'.handler = "flush" /\ proc'.gil = proc.gil
          /\ proc'.pc = proc.pc /\ proc'.at = proc.at /\ proc'.main = proc.main
          /\ proc'.active = proc.active /\ proc'.saved = proc.saved /\ proc'.previous = proc.previous
      BY <1>1, <2>3 DEF Process
    <2> USE ProcessFields, LocksDiffer DEF Discipline
    <2>6. made' = made
      BY <1>1 DEF history
    <2>7. SelfInCall' /\ Replaced'
      BY <1>1, <2>5 DEF SelfInCall, Replaced
    <2>8. RunsKnown'
      <3>1. \A x \in Tracers : proc'.slot[x] \in 0 .. Len(made')
        BY <1>1, <2>1, <2>5, <2>6 DEF RunsKnown
      <3>2. QED
        BY <1>1, <2>1, <2>5, <2>6, <3>1 DEF RunsKnown
    <2>9. Owners'
      BY <1>1, <2>1, <2>5 DEF Owners
    <2>10. Holders'
      BY <1>1, <2>1, <2>5 DEF Holders
    <2>11. GilKept'
      BY <1>1, <1>2, <2>5 DEF GilKept
    <2>12. QED
      BY <1>1, <2>4, <2>7, <2>8, <2>9, <2>10, <2>11, HistoryKept
  <1>5. QED
    BY <1>3, <1>4

LEMMA HandlerFlushKeeps ==
  ASSUME IInv, HandlerFlush
  PROVE  IInv'
  <1>1. /\ proc \in Process /\ UNCHANGED history /\ Discipline /\ proc.handler = "flush"
        /\ proc.gil \in {NoOne, proc.main} /\ made' = made
    BY DEF IInv, TypeOK, HandlerFlush, Handles, history
  <1>2. \A u \in Threads : proc.pc[u] # "flush"
    BY <1>1, NobodyFlushes
  <1>3. proc' \in Process
    BY <1>1, ZenonT(60) DEF HandlerFlush, Process
  <1>4. /\ proc'.pc = proc.pc /\ proc'.at = proc.at /\ SameRuns /\ proc'.owner = proc.owner
        /\ proc'.main = proc.main /\ proc'.saved = proc.saved /\ proc'.previous = proc.previous
        /\ proc'.dying = proc.dying /\ proc'.active = proc.active /\ proc'.handler = "join"
    BY <1>1 DEF HandlerFlush, Process, SameRuns
  <1> USE ProcessFields, LocksDiffer DEF Discipline, SameRuns
  <1>5. SelfInCall' /\ RunsKnown' /\ Replaced'
    BY <1>1, <1>4 DEF SelfInCall, RunsKnown, Replaced
  <1>6. Owners'
    BY <1>1, <1>4 DEF Owners
  <1>7. Holders'
    BY <1>1, <1>4 DEF Holders
  <1>8. GilKept'
    BY <1>1, <1>2, <1>4 DEF GilKept
  <1>9. QED
    BY <1>1, <1>3, <1>5, <1>6, <1>7, <1>8, HistoryKept

LEMMA HandlerJoinTypes ==
  ASSUME NEW p \in Process, NEW self
  PROVE  [p EXCEPT !.dying = 0, !.owner["ACTIVE"] = NoOne, !.owner[self] = NoOne,
                   !.handler = "raise"] \in Process
  BY ZenonT(60) DEF Process

LEMMA HandlerJoinKeeps ==
  ASSUME IInv, HandlerJoin
  PROVE  IInv'
  <1>1. /\ proc \in Process /\ Discipline /\ proc.handler = "join"
        /\ proc.gil \in {NoOne, proc.main} /\ UNCHANGED <<made, inherited, generation>>
    BY DEF IInv, TypeOK, HandlerJoin, Handles
  <1>2. \A u \in Threads : proc.pc[u] # "flush"
    BY <1>1, NobodyFlushes
  <1>3. proc' \in Process
    BY <1>1, HandlerJoinTypes DEF HandlerJoin
  <1>4. /\ proc'.pc = proc.pc /\ proc'.at = proc.at /\ SameRuns
        /\ proc'.owner = [proc.owner EXCEPT !["ACTIVE"] = NoOne, ![proc.active] = NoOne]
        /\ proc'.main = proc.main /\ proc'.saved = proc.saved /\ proc'.previous = proc.previous
        /\ proc'.dying = 0 /\ proc'.active = proc.active /\ proc'.handler = "raise"
    BY <1>1 DEF HandlerJoin, Process, SameRuns
  <1> USE ProcessFields, LocksDiffer DEF Discipline, SameRuns
  <1>5. SelfInCall' /\ Replaced'
    BY <1>1, <1>4 DEF SelfInCall, Replaced
  <1>6. RunsKnown'
    <2>1. 0 \in 0 .. Len(made)
      BY DEF IInv, TypeOK
    <2>2. QED
      BY <1>1, <1>4, <2>1 DEF RunsKnown
  <1>7. Owners'
    BY <1>1, <1>4 DEF Owners
  <1>8. Holders'
    BY <1>1, <1>4 DEF Holders
  <1>9. GilKept'
    BY <1>1, <1>2, <1>4 DEF GilKept
  <1>10. finished' \subseteq DOMAIN made
    <2>1. proc.dying \in DOMAIN made
      BY <1>1 DEF RunsKnown, IInv, TypeOK
    <2>2. QED
      BY <2>1 DEF HandlerJoin, IInv, TypeOK
  <1>11. QED
    BY <1>1, <1>3, <1>5, <1>6, <1>7, <1>8, <1>9, <1>10 DEF IInv, TypeOK

---------------------------------------------------------------------------
(* A child, and the theorems.                                               *)

\* Nobody holds or does anything in a process that has just begun.
LEMMA BeginsFree ==
  ASSUME NEW t \in Threads, proc' \in Process, made' \in Seq(Tracers),
         \A u \in Threads : /\ proc'.pc[u] \in {"gone", "idle", "begin", "inChild"}
                            /\ proc'.pc[u] = "begin" => proc'.at[u] \in Tracers
                            /\ proc'.hand[u] = 0,
         \A l \in Locks : proc'.owner[l] \in {NoOne, Vanished},
         \A tr \in Tracers : proc'.slot[tr] \in 0 .. Len(made'),
         proc'.handler = "none", proc'.dying = 0
  PROVE  Discipline'
  <1> USE LocksDiffer
  <1>1. SelfInCall'
    BY DEF SelfInCall, InCall, Steps
  <1>2. RunsKnown'
    BY DEF RunsKnown
  <1>3. Owners' /\ Holders' /\ GilKept' /\ Replaced'
    BY DEF Owners, Holders, GilKept, Replaced, HandlersHeld
  <1>4. QED
    BY <1>1, <1>2, <1>3 DEF Discipline

LEMMA FreshTypes ==
  ASSUME NEW t \in Threads, NEW env \in Tracers \cup {NoTracer}
  PROVE  Fresh(t, env) \in Process
  <1>1. [u \in Threads |-> IF u # t THEN "gone" ELSE IF env = NoTracer THEN "idle" ELSE "begin"]
          \in [Threads -> Steps]
    BY DEF Steps
  <1>2. [u \in Threads |-> IF u = t THEN env ELSE NoTracer] \in [Threads -> Tracers \cup {NoTracer}]
    OBVIOUS
  <1>3. [l \in Locks |-> NoOne] \in [Locks -> Threads \cup {NoOne, Exporter, Vanished}]
    OBVIOUS
  <1>4. [tr \in Tracers |-> 0] \in [Tracers -> Nat] /\ [u \in Threads |-> 0] \in [Threads -> Nat]
    OBVIOUS
  <1>5. <<>> \in Seq(Tracers)
    OBVIOUS
  <1>6. QED
    BY <1>1, <1>2, <1>3, <1>4, <1>5 DEF Fresh, Process

LEMMA SpawnKeeps ==
  ASSUME IInv, NEW t \in Threads, Spawn(t)
  PROVE  IInv'
  <1>1. /\ made \in Seq(Tracers) /\ made' = made /\ finished' = finished /\ inherited' = Len(made)
        /\ generation' \in 0 .. MaxChildren /\ Len(made) \in Nat
        /\ proc.env \in Tracers /\ proc' = Fresh(t, proc.env)
    BY TracerAssumption DEF Spawn, Child, IInv, TypeOK, Process
  <1>2. proc' \in Process
    BY <1>1, FreshTypes
  <1>3. Discipline'
    <2>1. \A u \in Threads : /\ proc'.pc[u] \in {"gone", "idle", "begin", "inChild"}
                             /\ proc'.pc[u] = "begin" => proc'.at[u] \in Tracers
                             /\ proc'.hand[u] = 0
      BY <1>1 DEF Fresh
    <2>2. /\ \A l \in Locks : proc'.owner[l] \in {NoOne, Vanished}
          /\ \A tr \in Tracers : proc'.slot[tr] \in 0 .. Len(made')
          /\ proc'.handler = "none" /\ proc'.dying = 0
      BY <1>1 DEF Fresh
    <2>3. QED
      BY <1>1, <1>2, <2>1, <2>2, BeginsFree
  <1>4. QED
    BY <1>1, <1>2, <1>3 DEF IInv, TypeOK

LEMMA ChildProcessTypes ==
  ASSUME NEW p \in Process, NEW t \in Threads,
         NEW owner \in [Locks -> Threads \cup {NoOne, Exporter, Vanished}], NEW pc \in [Threads -> Steps]
  PROVE  [p EXCEPT !.main = t, !.owner = owner, !.pc = pc, !.at = [u \in Threads |-> NoTracer],
                   !.hand = [u \in Threads |-> 0],
                   !.handler = "none", !.dying = 0, !.signalled = 0] \in Process
  BY ZenonT(60) DEF Process

LEMMA ForkKeeps ==
  ASSUME IInv, NEW t \in Threads, Fork(t)
  PROVE  IInv'
  <1> DEFINE owner == [l \in Locks |-> IF Free(l) THEN NoOne ELSE Vanished]
             pc == [u \in Threads |-> IF u # t THEN "gone" ELSE IF proc.hooks THEN "inChild" ELSE "idle"]
  <1>1. /\ proc \in Process /\ Discipline /\ made \in Seq(Tracers) /\ made' = made
        /\ finished' = finished /\ inherited' = Len(made)
        /\ generation' \in 0 .. MaxChildren /\ Len(made) \in Nat
    BY TracerAssumption DEF Fork, Child, IInv, TypeOK
  <1>2. proc' = [proc EXCEPT !.main = t, !.owner = owner, !.pc = pc, !.at = [u \in Threads |-> NoTracer],
                   !.hand = [u \in Threads |-> 0],
                   !.handler = "none", !.dying = 0, !.signalled = 0]
    BY DEF Fork
  <1>3. owner \in [Locks -> Threads \cup {NoOne, Exporter, Vanished}] /\ pc \in [Threads -> Steps]
    BY DEF Steps
  <1>4. proc' \in Process
    BY <1>1, <1>2, <1>3, ChildProcessTypes, Zenon
  <1>5. Discipline'
    <2>1. /\ proc'.pc = pc /\ proc'.hand = [u \in Threads |-> 0] /\ proc'.owner = owner
          /\ proc'.slot = proc.slot /\ proc'.handler = "none" /\ proc'.dying = 0
      BY <1>1, <1>2 DEF Process
    <2>2. \A u \in Threads : /\ proc'.pc[u] \in {"gone", "idle", "begin", "inChild"}
                             /\ proc'.pc[u] = "begin" => proc'.at[u] \in Tracers
                             /\ proc'.hand[u] = 0
      BY <2>1
    <2>3. /\ \A l \in Locks : proc'.owner[l] \in {NoOne, Vanished}
          /\ \A tr \in Tracers : proc'.slot[tr] \in 0 .. Len(made')
      BY <1>1, <2>1 DEF Discipline, RunsKnown
    <2>4. QED
      BY <1>1, <1>4, <2>1, <2>2, <2>3, BeginsFree
  <1>6. QED
    BY <1>1, <1>4, <1>5 DEF IInv, TypeOK

LEMMA InitHolds ==
  ASSUME Init
  PROVE  IInv
  <1>1. PICK t \in Threads, d \in {"default", "user", "ignored"} :
          proc = [Fresh(t, NoTracer) EXCEPT !.pc = [u \in Threads |-> "idle"], !.disp = d]
    BY DEF Init
  <1>2. proc \in Process
    <2>1. Fresh(t, NoTracer) \in Process
      BY FreshTypes
    <2>2. [u \in Threads |-> "idle"] \in [Threads -> Steps]
      BY DEF Steps
    <2>3. QED
      BY <1>1, <2>1, <2>2 DEF Process
  <1>3. /\ proc.pc = [u \in Threads |-> "idle"] /\ proc.hand = [u \in Threads |-> 0]
        /\ proc.owner = [l \in Locks |-> NoOne] /\ proc.slot = [tr \in Tracers |-> 0]
        /\ proc.handler = "none" /\ proc.dying = 0
    BY <1>1 DEF Fresh
  <1>4. /\ made \in Seq(Tracers) /\ Len(made) = 0 /\ inherited = 0 /\ generation = 0 /\ finished = {}
    BY DEF Init
  <1>5. Discipline
    BY <1>3, <1>4, LocksDiffer
       DEF Discipline, SelfInCall, InCall, RunsKnown, Owners, Holders, GilKept, Replaced, HandlersHeld
  <1>6. QED
    BY <1>2, <1>4, <1>5, TracerAssumption DEF IInv, TypeOK

LEMMA NextKeeps ==
  ASSUME IInv, [Next]_vars
  PROVE  IInv'
  <1>1. CASE UNCHANGED vars
    BY <1>1 DEF vars, IInv, TypeOK, Discipline, SelfInCall, RunsKnown, Owners, Holders, GilKept, Replaced
  <1>2. ASSUME NEW t \in Threads, Enters(t) PROVE IInv'
    BY <1>2, CallEnterKeeps, BeginKeeps, BeginFailsKeeps, LockHandlersKeeps, TakeOverKeeps,
       LeaveHandlersKeeps, KeepPreviousKeeps, InstallKeeps, PublishKeeps DEF Enters
  <1>3. ASSUME NEW t \in Threads, Leaves(t) PROVE IInv'
    BY <1>3, CallExitKeeps, ClearKeeps, LockToHandBackKeeps, HandBackKeeps, StopAdvertisingKeeps,
       TakeKeeps, FlushKeeps, JoinKeeps DEF Leaves
  <1>4. ASSUME NEW t \in Threads, Forks(t) PROVE IInv'
    BY <1>4, CallForkKeeps, BeforeForkKeeps, ForkReturnsKeeps, ForkKeeps, SpawnKeeps,
       AfterForkInParentKeeps, AfterForkInChildKeeps DEF Forks
  <1>5. CASE Signals
    BY <1>5, UserHandlesKeeps, DeliverKeeps, KilledKeeps, LookUpKeeps, EndActiveKeeps, HandlerFlushKeeps,
       HandlerJoinKeeps, RaiseKeeps DEF Signals
  <1>6. QED
    BY <1>1, <1>2, <1>3, <1>4, <1>5, CallUseKeeps, UseKeeps, WaitsKeeps, ReadTailsKeeps DEF Next

LEMMA Invariant == Spec => []IInv
  BY InitHolds, NextKeeps, PTL DEF Spec

\* Every field of the process keeps its range, and the runs it made, inherited
\* and finished fit each other, whatever the order of enters, exits, forks and
\* signals.
THEOREM TypeCorrect == Spec => []TypeOK
  <1>1. IInv => TypeOK
    BY DEF IInv
  <1>2. QED
    BY <1>1, Invariant, PTL

\* For any number of threads and tracers: a thread that waits for a mutex with
\* the GIL, and whose owner needs the GIL or is gone, waits for the thread that
\* calls into the signal module, for one that joins its exporter, or for one a
\* fork has left behind; tracer.rs has no other deadlock.
THEOREM KnownDeadlocks == Spec => []OnlyKnownDeadlocks
  <1>1. ASSUME IInv PROVE OnlyKnownDeadlocks
    <2> USE LocksDiffer
    <2>1. proc \in Process /\ Discipline
      BY <1>1 DEF IInv, TypeOK
    <2> SUFFICES ASSUME NEW t \in Threads, proc.gil = t, NEW l \in Wants(t), NEW u \in Threads,
                        proc.owner[l] = u
                 PROVE  \/ proc.pc[u] \in {"asking", "installed", "handing"} /\ l = "REPLACED_HANDLERS"
                        \/ proc.pc[u] = "join" /\ l = proc.at[u]
                        \/ u = proc.main /\ proc.handler = "join" /\ l \in {"ACTIVE", proc.active}
      BY DEF OnlyKnownDeadlocks, Stuck
    <2>2. l \in Locks
      <3>1. \A x \in {"ACTIVE"} \cup ({proc.active} \ {NoTracer}) : x \in Locks
        BY <2>1, ProcessFields
      <3>2. proc.pc[t] \in {"install", "take", "use"} => proc.at[t] \in Locks
        BY <2>1 DEF Discipline, SelfInCall, InCall, Steps
      <3>3. QED
        BY <3>1, <3>2 DEF Wants
    <2>3. CASE l = "REPLACED_HANDLERS" /\ proc.pc[u] \in HandlersHeld
      BY <2>3 DEF HandlersHeld
    <2>4. CASE l = proc.at[u] /\ proc.pc[u] \in {"flush", "join"}
      <3>1. proc.pc[u] = "flush" => u = t /\ l = "RECORDERS"
        BY <2>1 DEF Discipline, GilKept, Wants
      <3>2. proc.pc[u] = "flush" => proc.at[u] \in Tracers
        BY <2>1 DEF Discipline, SelfInCall, InCall, Steps
      <3>3. QED
        BY <2>4, <3>1, <3>2
    <2>5. CASE u = proc.main /\ proc.handler \in {"flush", "join"} /\ l \in {"ACTIVE", proc.active}
      <3>1. proc.handler = "flush" => proc.main = t /\ l = "RECORDERS"
        BY <2>1 DEF Discipline, GilKept, Wants
      <3>2. proc.active \in Tracers \cup {NoTracer}
        BY <2>1, ProcessFields
      <3>3. QED
        BY <2>5, <3>1, <3>2
    <2>6. QED
      BY <2>1, <2>2, <2>3, <2>4, <2>5 DEF Discipline, Owners
  <1>2. QED
    BY <1>1, Invariant, PTL

---------------------------------------------------------------------------
(* Handlers and forks.                                                      *)

Forkers == {"beforeFork", "forking", "inParent"}
Bystanders == {"gone", "idle", "use"}

\* What overlap is recorded for: nobody enters or leaves during a fork.
ForksAlone ==
    ~proc.overlap =>
        \A t, u \in Threads : t # u /\ proc.pc[t] \in Forkers => proc.pc[u] \in Bystanders

Known == ForksAlone /\ SignalHasItsHandler

SameDispositions ==
    /\ proc'.main = proc.main /\ proc'.overlap = proc.overlap /\ proc'.elsewhere = proc.elsewhere
    /\ proc'.disp = proc.disp /\ proc'.saved = proc.saved

LEMMA QuietMoves ==
  ASSUME proc \in Process, Known, NEW t \in Threads, NEW to,
         proc'.pc = [proc.pc EXCEPT ![t] = to], SameDispositions, proc.pc[t] # "installed",
         \/ to \in Bystanders
         \/ proc.pc[t] \in Forkers /\ to \in Forkers
         \/ proc.pc[t] \notin Bystanders /\ to \notin Forkers
  PROVE  Known'
  <1>1. proc.pc \in [Threads -> Steps] /\ proc.main \in Threads
    BY DEF Process
  <1>2. ForksAlone'
    BY <1>1 DEF Known, ForksAlone, SameDispositions, Forkers, Bystanders
  <1>3. SignalHasItsHandler'
    BY <1>1 DEF Known, SignalHasItsHandler, SameDispositions
  <1>4. QED
    BY <1>2, <1>3 DEF Known

LEMMA StillKnown ==
  ASSUME Known, proc'.pc = proc.pc, SameDispositions
  PROVE  Known'
  BY DEF Known, ForksAlone, SignalHasItsHandler, SameDispositions

\* Entering, leaving or forking during a fork sets overlap.
LEMMA CallsKnown ==
  ASSUME proc \in Process, Known, NEW t \in Threads, NEW to, proc.pc[t] = "idle",
         proc'.pc = [proc.pc EXCEPT ![t] = to],
         proc'.main = proc.main, proc'.elsewhere = proc.elsewhere,
         proc'.disp = proc.disp, proc'.saved = proc.saved,
         proc.overlap => proc'.overlap,
         Forking(t) => proc'.overlap,
         to \in Forkers /\ Crosses(t) => proc'.overlap
  PROVE  Known'
  <1>1. proc.pc \in [Threads -> Steps] /\ proc.main \in Threads
    BY DEF Process
  <1>2. ForksAlone'
    BY <1>1 DEF Known, ForksAlone, Forking, Crosses, Forkers, Bystanders
  <1>3. SignalHasItsHandler'
    BY <1>1 DEF Known, SignalHasItsHandler
  <1>4. QED
    BY <1>2, <1>3 DEF Known

LEMMA EntersKnown ==
  ASSUME IInv, Known, NEW t \in Threads, Enters(t)
  PROVE  Known'
  <1> USE DEF At
  <1>1. proc \in Process
    BY DEF IInv, TypeOK
  <1>2. ASSUME NEW tr \in Tracers, CallEnter(t, tr) PROVE Known'
    <2>1. /\ proc.pc[t] = "idle" /\ proc'.pc = [proc.pc EXCEPT ![t] = "begin"]
          /\ proc'.main = proc.main /\ proc'.elsewhere = proc.elsewhere
          /\ proc'.disp = proc.disp /\ proc'.saved = proc.saved
      BY <1>1, <1>2 DEF CallEnter, Process
    <2>2. proc'.overlap = (proc.overlap \/ Forking(t))
      BY <1>1, <1>2 DEF CallEnter, Process
    <2>3. QED
      BY <1>1, <2>1, <2>2, CallsKnown DEF Forkers
  <1>3. CASE Begin(t)
    <2>1. /\ proc.pc[t] = "begin" /\ proc'.pc = [proc.pc EXCEPT ![t] = "takeOver"] /\ SameDispositions
      BY <1>1, <1>3 DEF Begin, Process, SameDispositions
    <2>2. QED
      BY <1>1, <2>1, QuietMoves DEF Forkers, Bystanders
  <1>4. CASE BeginFails(t)
    <2>1. /\ proc.pc[t] = "begin" /\ proc'.pc = [proc.pc EXCEPT ![t] = "idle"] /\ SameDispositions
      BY <1>1, <1>4 DEF BeginFails, Process, SameDispositions
    <2>2. QED
      BY <1>1, <2>1, QuietMoves DEF Forkers, Bystanders
  <1>5. CASE LockHandlers(t)
    <2>1. /\ proc.pc[t] = "takeOver" /\ proc'.pc = [proc.pc EXCEPT ![t] = "asking"] /\ SameDispositions
      BY <1>1, <1>5 DEF LockHandlers, Process, SameDispositions
    <2>2. QED
      BY <1>1, <2>1, QuietMoves DEF Forkers, Bystanders
  <1>6. CASE TakeOver(t)
    <2>1. /\ proc.pc[t] = "asking" /\ proc'.pc = [proc.pc EXCEPT ![t] = "installed"]
          /\ proc'.overlap = proc.overlap /\ proc'.main = proc.main /\ t = proc.main
      BY <1>1, <1>6 DEF TakeOver, TakesOver, Process
    <2>2. proc.pc \in [Threads -> Steps]
      BY <1>1, ProcessFields
    <2>3. ForksAlone'
      BY <2>1, <2>2 DEF Known, ForksAlone, Forkers, Bystanders
    <2>4. SignalHasItsHandler'
      BY <2>1, <2>2 DEF SignalHasItsHandler
    <2>5. QED
      BY <2>3, <2>4 DEF Known
  <1>7. CASE LeaveHandlers(t)
    <2>1. /\ proc.pc[t] = "asking" /\ proc'.pc = [proc.pc EXCEPT ![t] = "install"] /\ SameDispositions
      BY <1>1, <1>7 DEF LeaveHandlers, Process, SameDispositions
    <2>2. QED
      BY <1>1, <2>1, QuietMoves DEF Forkers, Bystanders
  <1>8. CASE KeepPrevious(t)
    <2>1. /\ proc.pc[t] = "installed" /\ proc'.pc = [proc.pc EXCEPT ![t] = "install"]
          /\ proc'.overlap = proc.overlap /\ proc'.saved = proc.previous
      BY <1>1, <1>8 DEF KeepPrevious, Process
    <2>2. proc.pc \in [Threads -> Steps]
      BY <1>1, ProcessFields
    <2>3. ForksAlone'
      BY <2>1, <2>2 DEF Known, ForksAlone, Forkers, Bystanders
    <2>4. proc.previous # "none"
      BY <2>1 DEF IInv, Discipline, Replaced
    <2>5. SignalHasItsHandler'
      BY <2>1, <2>4 DEF SignalHasItsHandler
    <2>6. QED
      BY <2>3, <2>5 DEF Known
  <1>9. CASE Install(t)
    <2>1. /\ proc.pc[t] = "install" /\ proc'.pc = [proc.pc EXCEPT ![t] = "publish"] /\ SameDispositions
      BY <1>1, <1>9 DEF Install, Process, SameDispositions
    <2>2. QED
      BY <1>1, <2>1, QuietMoves DEF Forkers, Bystanders
  <1>10. CASE Publish(t)
    <2>1. /\ proc.pc[t] = "publish" /\ proc'.pc = [proc.pc EXCEPT ![t] = "idle"] /\ SameDispositions
      BY <1>1, <1>10 DEF Publish, Process, SameDispositions
    <2>2. QED
      BY <1>1, <2>1, QuietMoves DEF Forkers, Bystanders
  <1>11. QED
    BY <1>2, <1>3, <1>4, <1>5, <1>6, <1>7, <1>8, <1>9, <1>10 DEF Enters

LEMMA LeavesKnown ==
  ASSUME IInv, Known, NEW t \in Threads, Leaves(t)
  PROVE  Known'
  <1> USE DEF At
  <1>1. proc \in Process
    BY DEF IInv, TypeOK
  <1>2. CASE CallExit(t)
    <2>1. /\ proc.pc[t] = "idle" /\ proc'.pc = [proc.pc EXCEPT ![t] = "clear"]
          /\ proc'.main = proc.main /\ proc'.elsewhere = proc.elsewhere
          /\ proc'.disp = proc.disp /\ proc'.saved = proc.saved
      BY <1>1, <1>2 DEF CallExit, Process
    <2>2. proc'.overlap = (proc.overlap \/ Forking(t))
      BY <1>1, <1>2 DEF CallExit, Process
    <2>3. QED
      BY <1>1, <2>1, <2>2, CallsKnown DEF Forkers
  <1>3. CASE Clear(t)
    <2>1. /\ proc.pc[t] = "clear" /\ proc'.pc = [proc.pc EXCEPT ![t] = "handBack"] /\ SameDispositions
      BY <1>1, <1>3 DEF Clear, Process, SameDispositions
    <2>2. QED
      BY <1>1, <2>1, QuietMoves DEF Forkers, Bystanders
  <1>4. CASE LockToHandBack(t)
    <2>1. /\ proc.pc[t] = "handBack" /\ SameDispositions
          /\ \/ proc'.pc = [proc.pc EXCEPT ![t] = "stop"]
             \/ proc'.pc = [proc.pc EXCEPT ![t] = "handing"]
      BY <1>1, <1>4 DEF LockToHandBack, Process, SameDispositions
    <2>2. QED
      BY <1>1, <2>1, QuietMoves DEF Forkers, Bystanders
  <1>5. CASE HandBack(t)
    <2>1. /\ proc.pc[t] = "handing" /\ proc'.pc = [proc.pc EXCEPT ![t] = "stop"]
          /\ proc'.overlap = proc.overlap /\ proc'.main = proc.main
          /\ proc'.disp = IF t = proc.main /\ proc.disp = "ours" THEN proc.saved ELSE proc.disp
      BY <1>1, <1>5 DEF HandBack, Process
    <2>2. proc'.elsewhere = (proc.elsewhere \/ t # proc.main)
      BY <1>1, <1>5 DEF HandBack, Process
    <2>3. proc.pc \in [Threads -> Steps]
      BY <1>1, ProcessFields
    <2>4. ForksAlone'
      BY <2>1, <2>3 DEF Known, ForksAlone, Forkers, Bystanders
    <2>5. proc.saved # "ours"
      BY <1>1 DEF Process
    <2>6. SignalHasItsHandler'
      BY <2>1, <2>2, <2>5 DEF SignalHasItsHandler
    <2>7. QED
      BY <2>4, <2>6 DEF Known
  <1>6. CASE StopAdvertising(t)
    <2>1. /\ proc.pc[t] = "stop" /\ proc'.pc = [proc.pc EXCEPT ![t] = "take"] /\ SameDispositions
      BY <1>1, <1>6 DEF StopAdvertising, Process, SameDispositions
    <2>2. QED
      BY <1>1, <2>1, QuietMoves DEF Forkers, Bystanders
  <1>7. CASE Take(t)
    <2>1. /\ proc.pc[t] = "take" /\ SameDispositions
          /\ \/ proc'.pc = [proc.pc EXCEPT ![t] = "idle"]
             \/ proc'.pc = [proc.pc EXCEPT ![t] = "flush"]
      BY <1>1, <1>7 DEF Take, Process, SameDispositions
    <2>2. QED
      BY <1>1, <2>1, QuietMoves DEF Forkers, Bystanders
  <1>8. CASE Flush(t)
    <2>1. /\ proc.pc[t] = "flush" /\ proc'.pc = [proc.pc EXCEPT ![t] = "join"] /\ SameDispositions
      BY <1>1, <1>8 DEF Flush, Process, SameDispositions
    <2>2. QED
      BY <1>1, <2>1, QuietMoves DEF Forkers, Bystanders
  <1>9. CASE Join(t)
    <2>1. /\ proc.pc[t] = "join" /\ proc'.pc = [proc.pc EXCEPT ![t] = "idle"] /\ SameDispositions
      BY <1>1, <1>9 DEF Join, Process, SameDispositions
    <2>2. QED
      BY <1>1, <2>1, QuietMoves DEF Forkers, Bystanders
  <1>10. QED
    BY <1>2, <1>3, <1>4, <1>5, <1>6, <1>7, <1>8, <1>9 DEF Leaves

LEMMA ForksKnown ==
  ASSUME IInv, Known, NEW t \in Threads, Forks(t)
  PROVE  Known'
  <1> USE DEF At
  <1>1. proc \in Process
    BY DEF IInv, TypeOK
  <1>2. proc.pc \in [Threads -> Steps] /\ proc.main \in Threads
    BY <1>1, ProcessFields
  <1>3. CASE CallFork(t)
    <2> DEFINE to == IF proc.hooks THEN "beforeFork" ELSE "forking"
    <2>1. /\ proc.pc[t] = "idle" /\ proc'.pc = [proc.pc EXCEPT ![t] = to]
          /\ proc'.main = proc.main /\ proc'.elsewhere = proc.elsewhere
          /\ proc'.disp = proc.disp /\ proc'.saved = proc.saved
      BY <1>1, <1>3 DEF CallFork, Process
    <2>2. proc'.overlap = (proc.overlap \/ Crosses(t) \/ Forking(t) \/ proc.handler # "none")
      BY <1>1, <1>3 DEF CallFork, Process
    <2>3. QED
      BY <1>1, <2>1, <2>2, CallsKnown DEF Forkers
  <1>4. CASE BeforeFork(t)
    <2>1. /\ proc.pc[t] = "beforeFork" /\ proc'.pc = [proc.pc EXCEPT ![t] = "forking"] /\ SameDispositions
      BY <1>1, <1>4 DEF BeforeFork, Process, SameDispositions
    <2>2. QED
      BY <1>1, <2>1, QuietMoves DEF Forkers, Bystanders
  <1>5. CASE ForkReturns(t)
    <2>1. /\ proc.pc[t] = "forking" /\ SameDispositions
          /\ \/ proc'.pc = [proc.pc EXCEPT ![t] = "inParent"]
             \/ proc'.pc = [proc.pc EXCEPT ![t] = "idle"]
      BY <1>1, <1>5 DEF ForkReturns, Process, SameDispositions
    <2>2. QED
      BY <1>1, <2>1, QuietMoves DEF Forkers, Bystanders
  <1>6. CASE Fork(t)
    <2>1. /\ proc.pc[t] = "forking" /\ proc'.main = t /\ proc'.overlap = proc.overlap
          /\ proc'.elsewhere = proc.elsewhere /\ proc'.disp = proc.disp /\ proc'.saved = proc.saved
          /\ proc'.pc = [u \in Threads |->
                            IF u # t THEN "gone" ELSE IF proc.hooks THEN "inChild" ELSE "idle"]
      BY <1>1, <1>6 DEF Fork, Process
    <2>2. ForksAlone'
      BY <2>1 DEF ForksAlone, Forkers, Bystanders
    <2>3. ~proc.overlap => proc.pc[proc.main] # "installed"
      BY <1>2, <2>1 DEF Known, ForksAlone, Forkers, Bystanders
    <2>4. SignalHasItsHandler'
      BY <2>1, <2>3 DEF Known, SignalHasItsHandler
    <2>5. QED
      BY <2>2, <2>4 DEF Known
  <1>7. CASE Spawn(t)
    <2>1. /\ proc'.disp = "default"
          /\ \A u \in Threads : proc'.pc[u] \in {"gone", "idle", "begin"}
      BY <1>7 DEF Spawn, Fresh
    <2>2. QED
      BY <2>1 DEF Known, ForksAlone, SignalHasItsHandler, Forkers
  <1>8. CASE AfterForkInParent(t)
    <2>1. /\ proc.pc[t] = "inParent" /\ proc'.pc = [proc.pc EXCEPT ![t] = "idle"] /\ SameDispositions
      BY <1>1, <1>8 DEF AfterForkInParent, Process, SameDispositions
    <2>2. QED
      BY <1>1, <2>1, QuietMoves DEF Forkers, Bystanders
  <1>9. CASE AfterForkInChild(t)
    <2>1. /\ proc.pc[t] = "inChild" /\ proc'.pc = [proc.pc EXCEPT ![t] = "idle"] /\ SameDispositions
      BY <1>1, <1>9 DEF AfterForkInChild, Process, SameDispositions
    <2>2. QED
      BY <1>1, <2>1, QuietMoves DEF Forkers, Bystanders
  <1>10. QED
    BY <1>3, <1>4, <1>5, <1>6, <1>7, <1>8, <1>9 DEF Forks

LEMMA SignalsKnown ==
  ASSUME IInv, Known, Signals
  PROVE  Known'
  <1>1. proc \in Process
    BY DEF IInv, TypeOK
  <1>2. CASE UserHandles
    <2>1. /\ proc'.pc = proc.pc /\ proc'.overlap = proc.overlap /\ proc'.disp = "user"
      BY <1>1, <1>2 DEF UserHandles, Process
    <2>2. QED
      BY <2>1 DEF Known, ForksAlone, SignalHasItsHandler
  <1>3. CASE Deliver
    <2>1. /\ proc'.pc = proc.pc /\ proc'.main = proc.main /\ proc'.elsewhere = proc.elsewhere
          /\ proc'.disp = proc.disp /\ proc'.saved = proc.saved
      BY <1>1, <1>3 DEF Deliver, Process
    <2>2. proc'.overlap = (proc.overlap \/ Forking(proc.main))
      BY <1>1, <1>3 DEF Deliver, Process
    <2>3. QED
      BY <2>1, <2>2 DEF Known, ForksAlone, SignalHasItsHandler
  <1>4. CASE LookUp
    <2>1. /\ proc'.pc = proc.pc /\ proc'.main = proc.main /\ proc'.elsewhere = proc.elsewhere
          /\ proc'.overlap = proc.overlap /\ proc'.saved = proc.saved
          /\ proc'.disp \in {proc.disp, "ignored"}
      BY <1>1, <1>4 DEF LookUp, Process
    <2>2. QED
      BY <2>1 DEF Known, ForksAlone, SignalHasItsHandler
  <1>5. CASE EndActive
    BY <1>1, <1>5, StillKnown DEF EndActive, Process, SameDispositions
  <1>6. CASE HandlerFlush
    BY <1>1, <1>6, StillKnown DEF HandlerFlush, Process, SameDispositions
  <1>7. CASE HandlerJoin
    BY <1>1, <1>7, StillKnown DEF HandlerJoin, Process, SameDispositions
  <1>8. CASE Raise
    BY <1>1, <1>8, StillKnown DEF Raise, Process, SameDispositions
  <1>9. CASE Killed
    BY <1>1, <1>9, StillKnown DEF Killed, Process, SameDispositions
  <1>10. QED
    BY <1>2, <1>3, <1>4, <1>5, <1>6, <1>7, <1>8, <1>9 DEF Signals

LEMMA KnownKeeps ==
  ASSUME IInv, Known, [Next]_vars
  PROVE  Known'
  <1>1. proc \in Process
    BY DEF IInv, TypeOK
  <1>2. CASE UNCHANGED vars
    BY <1>2, StillKnown DEF vars, SameDispositions
  <1>3. ASSUME NEW t \in Threads, NEW tr \in Tracers, CallUse(t, tr) PROVE Known'
    <2>1. /\ proc.pc[t] = "idle" /\ proc'.pc = [proc.pc EXCEPT ![t] = "use"] /\ SameDispositions
      BY <1>1, <1>3 DEF CallUse, At, Process, SameDispositions
    <2>2. QED
      BY <1>1, <2>1, QuietMoves DEF Bystanders
  <1>4. ASSUME NEW t \in Threads, Use(t) PROVE Known'
    <2>1. /\ proc.pc[t] = "use" /\ proc'.pc = [proc.pc EXCEPT ![t] = "idle"] /\ SameDispositions
      BY <1>1, <1>4 DEF Use, At, Process, SameDispositions
    <2>2. QED
      BY <1>1, <2>1, QuietMoves DEF Bystanders
  <1>5. ASSUME NEW t \in Threads, Waits(t) PROVE Known'
    BY <1>1, <1>5, StillKnown DEF Waits, Process, SameDispositions
  <1>6. ASSUME NEW r \in DOMAIN made, ReadTails(r) \/ ReadTailsEnd(r) PROVE Known'
    BY <1>1, <1>6, StillKnown DEF ReadTails, ReadTailsEnd, Process, SameDispositions
  <1>7. QED
    BY <1>2, <1>3, <1>4, <1>5, <1>6, EntersKnown, LeavesKnown, ForksKnown, SignalsKnown DEF Next

LEMMA AlwaysKnown == Spec => []Known
  <1>1. Init => Known
    <2> SUFFICES ASSUME Init PROVE Known
      OBVIOUS
    <2>1. proc.disp # "ours" /\ \A t \in Threads : proc.pc[t] = "idle"
      BY DEF Init, Fresh
    <2>2. QED
      BY <2>1 DEF Known, ForksAlone, SignalHasItsHandler, Forkers
  <1>2. IInv /\ Known /\ [Next]_vars => Known'
    BY KnownKeeps
  <1>3. QED
    BY <1>1, <1>2, Invariant, PTL DEF Spec

\* No deadly signal is swallowed: while the tracer's handler is in place, the
\* one it replaced is known, in whatever order threads enter and leave, take
\* handlers over and hand them back, and processes fork.  Excepted are a fork in
\* the middle of another thread's call, and leaving off the main thread.
THEOREM HandlersKept == Spec => []SignalHasItsHandler
  <1>1. Known => SignalHasItsHandler
    BY DEF Known
  <1>2. QED
    BY <1>1, AlwaysKnown, PTL
=============================================================================
