--------------------------- MODULE SystemLifecycle ---------------------------
(***************************************************************************)
(* The life of AurelixSystem's loop inside the HTTP server: the ASGI       *)
(* lifespan starts a thread for run_forever and, when it ends, calls stop  *)
(* and waits five seconds for the thread (aurelix_core/server.py,          *)
(* aurelix_runtime/system.py, scheduler.py).                               *)
(*                                                                         *)
(* The system is one object for the process: a lifespan may begin while a  *)
(* thread of an earlier one is still busy, and the flags are shared.  The  *)
(* lifespan and the threads interleave between the reads and writes of     *)
(* those flags; _enqueue_due holds the schedule's lock throughout.         *)
(*                                                                         *)
(* A job is a number; what it does, its lease and its retries are          *)
(* RuntimeWorkers.  The events of scheduler.py and runtime.py that stop    *)
(* also sets are read by serve_forever loops that this composition never   *)
(* runs.                                                                   *)
(***************************************************************************)
EXTENDS Naturals, FiniteSets

CONSTANTS
  Threads,         \* bound: threads that have not ended
  Lifespan,        \* the event loop's thread
  NoThread,        \* None
  MaxJobsPerTick,  \* SchedulerConfig.max_jobs_per_tick
  MaxPeriods,      \* bound: times the schedule comes due
  MaxPending,      \* bound: jobs that wait, for a request to add one
  MaxFaults        \* bound: calls that raise

ASSUME LifecycleAssumption ==
  /\ Lifespan \notin Threads
  /\ NoThread \notin Threads
  /\ MaxJobsPerTick \in Nat \ {0}
  /\ MaxPeriods \in Nat \ {0} /\ MaxPending \in Nat \ {0} /\ MaxFaults \in Nat

Actors == Threads \union {Lifespan}

VARIABLES
  at,       \* where each actor is
  stop,     \* AurelixSystem._stop is set
  started,  \* AurelixSystem._started
  thread,   \* _system_thread
  due,      \* the schedule's time in _next_run has come
  left,     \* jobs the thread may still run in this tick
  pending,  \* jobs that wait in the store
  periods,  \* ghost: times the schedule came due
  cycles,   \* ghost: jobs the schedule queued
  late,     \* ghost: jobs the thread began while stop was set
  faults

lifecycleVars == <<at, stop, started, thread, due, left, pending, periods, cycles, late, faults>>
flags == <<stop, started>>
work == <<due, left, pending, periods, cycles, late>>

LifecycleTypeOK ==
  /\ \A t \in Threads :
       at[t] \in {"ended", "start", "clear", "mark", "announce", "check", "tick", "work",
                 "stop", "unset"}
  /\ at[Lifespan] \in {"down", "serving", "stop", "unset", "join"}
  /\ stop \in BOOLEAN /\ started \in BOOLEAN /\ due \in BOOLEAN
  /\ thread \in Threads \union {NoThread}
  /\ left \in [Threads -> 0..MaxJobsPerTick]
  /\ pending \in 0..(MaxPending + MaxPeriods + MaxFaults)
  /\ periods \in 1..MaxPeriods
  /\ cycles \in 0..(MaxPeriods + MaxFaults)
  /\ late \in [Threads -> Nat]
  /\ faults \in 0..MaxFaults

\* The constructor schedules the cycle, due at once.
LifecycleInit ==
  /\ at = [a \in Actors |-> IF a = Lifespan THEN "down" ELSE "ended"]
  /\ stop = FALSE
  /\ started = FALSE
  /\ thread = NoThread
  /\ due = TRUE
  /\ left = [t \in Threads |-> 0]
  /\ pending = 0
  /\ periods = 1
  /\ cycles = 0
  /\ late = [t \in Threads |-> 0]
  /\ faults = 0

Goes(a, where) == at' = [at EXCEPT ![a] = where]

Alive(t) == t # NoThread /\ at[t] # "ended"

\* A call that can raise: the step goes to normal, or to raised.
MayRaise(a, normal, raised) ==
  \/ /\ Goes(a, normal)
     /\ UNCHANGED faults
  \/ /\ faults < MaxFaults
     /\ faults' = faults + 1
     /\ Goes(a, raised)

-----------------------------------------------------------------------------
(* The lifespan *)

\* Mutant of Scheduled: the name is scheduled afresh, not by setdefault.
ScheduledNow == TRUE

\* A schedule of the same name is replaced and keeps its next run.
Scheduled == due

\* Startup.  Autonomy may be disabled; a thread that lives is kept.
Enter ==
  /\ at[Lifespan] = "down"
  /\ \/ /\ Goes(Lifespan, "serving")
        /\ UNCHANGED <<thread, due>>
     \/ /\ due' = Scheduled
        /\ IF Alive(thread)
           THEN /\ Goes(Lifespan, "serving")
                /\ UNCHANGED thread
           ELSE \E t \in Threads :
                  /\ at[t] = "ended"
                  /\ thread' = t
                  /\ at' = [at EXCEPT ![Lifespan] = "serving", ![t] = "start"]
  /\ UNCHANGED <<flags, left, pending, periods, cycles, late, faults>>

\* A request submits a job through the system.
SubmitJob ==
  /\ at[Lifespan] = "serving"
  /\ pending < MaxPending
  /\ pending' = pending + 1
  /\ UNCHANGED <<at, flags, thread, due, left, periods, cycles, late, faults>>

\* Shutdown calls stop.
Exit ==
  /\ at[Lifespan] = "serving"
  /\ Goes(Lifespan, "stop")
  /\ UNCHANGED <<flags, thread, work, faults>>

\* join returns when the thread has ended, or after five seconds.
Join ==
  /\ at[Lifespan] = "join"
  /\ Goes(Lifespan, "down")
  /\ thread' = NoThread
  /\ UNCHANGED <<flags, work, faults>>

-----------------------------------------------------------------------------
(* AurelixSystem.stop, called by the lifespan and by run_forever's finally *)

Stopped(a) == IF a = Lifespan THEN "join" ELSE "ended"

\* A lifespan whose stop raises forgets the join and _system_thread.
StopRaised(a) == IF a = Lifespan THEN "down" ELSE "ended"

StopBegins(a) ==
  /\ at[a] = "stop"
  /\ IF started
     THEN /\ stop' = TRUE
          /\ Goes(a, "unset")
     ELSE /\ Goes(a, Stopped(a))
          /\ UNCHANGED stop
  /\ UNCHANGED <<started, thread, work, faults>>

\* _started is unset and the stop audited.
StopEnds(a) ==
  /\ at[a] = "unset"
  /\ started' = FALSE
  /\ MayRaise(a, Stopped(a), StopRaised(a))
  /\ UNCHANGED <<stop, thread, work>>

-----------------------------------------------------------------------------
(* run_forever: start, which is outside its try *)

StartChecks(t) ==
  /\ at[t] = "start"
  /\ IF started THEN Goes(t, "check") /\ UNCHANGED faults
     ELSE MayRaise(t, "clear", "ended")  \* scheduler.recover
  /\ UNCHANGED <<flags, thread, work>>

StartClears(t) ==
  /\ at[t] = "clear"
  /\ stop' = FALSE
  /\ late' = [u \in Threads |-> 0]
  /\ Goes(t, "mark")
  /\ UNCHANGED <<started, thread, due, left, pending, periods, cycles, faults>>

StartMarks(t) ==
  /\ at[t] = "mark"
  /\ started' = TRUE
  /\ Goes(t, "announce")
  /\ UNCHANGED <<stop, thread, work, faults>>

\* The mission's message, which its subscriber audits, and the start's audit.
Announce(t) ==
  /\ at[t] = "announce"
  /\ MayRaise(t, "check", "ended")
  /\ UNCHANGED <<flags, thread, work>>

-----------------------------------------------------------------------------
(* run_forever: the loop *)

CheckStop(t) ==
  /\ at[t] = "check"
  /\ Goes(t, IF stop THEN "stop" ELSE "tick")
  /\ UNCHANGED <<flags, thread, work, faults>>

ComesDue ==
  /\ ~due
  /\ periods < MaxPeriods
  /\ due' = TRUE
  /\ periods' = periods + 1
  /\ UNCHANGED <<at, flags, thread, left, pending, cycles, late, faults>>

\* Mutant of Ready: tick trusts its caller.
ReadyAlways(t) == at[t] = "tick"

Ready(t) == at[t] = "tick" /\ started

\* tick of a system that is not started raises.
TickRaises(t) ==
  /\ at[t] = "tick"
  /\ ~Ready(t)
  /\ Goes(t, "stop")
  /\ UNCHANGED <<flags, thread, work, faults>>

\* _enqueue_due: nothing due; the job queued and its next run set; or a call
\* raises, before the row is inserted, after it and before the next run is
\* set, or after that.
EnqueueDue(t) ==
  /\ Ready(t)
  /\ \/ /\ ~due
        /\ Goes(t, "work")
        /\ UNCHANGED <<due, pending, cycles, faults>>
     \/ /\ due
        /\ pending' = pending + 1
        /\ cycles' = cycles + 1
        /\ due' = FALSE
        /\ MayRaise(t, "work", "stop")
     \/ /\ due
        /\ faults < MaxFaults
        /\ faults' = faults + 1
        /\ Goes(t, "stop")
        /\ \/ /\ pending' = pending + 1
              /\ cycles' = cycles + 1
           \/ UNCHANGED <<pending, cycles>>
        /\ UNCHANGED due
  /\ left' = [left EXCEPT ![t] = MaxJobsPerTick]
  /\ UNCHANGED <<flags, thread, periods, late>>

\* Mutant of Rest: a tick goes on while there are jobs.
RestUnbounded(t) == left[t]

\* What a tick may still run once it has run a job.
Rest(t) == left[t] - 1

\* scheduler.tick runs a job; the loop of the tick does not look at the flags.
RunJob(t) ==
  /\ at[t] = "work"
  /\ left[t] > 0
  /\ pending > 0
  /\ pending' = pending - 1
  /\ left' = [left EXCEPT ![t] = Rest(t)]
  /\ late' = IF stop THEN [late EXCEPT ![t] = @ + 1] ELSE late
  /\ MayRaise(t, "work", "stop")
  /\ UNCHANGED <<flags, thread, due, periods, cycles>>

EndTick(t) ==
  /\ at[t] = "work"
  /\ left[t] = 0 \/ pending = 0
  /\ Goes(t, "check")
  /\ UNCHANGED <<flags, thread, work, faults>>

-----------------------------------------------------------------------------

Starts(t) == StartChecks(t) \/ StartClears(t) \/ StartMarks(t) \/ Announce(t)
Loops(t) == CheckStop(t) \/ TickRaises(t) \/ EnqueueDue(t) \/ RunJob(t) \/ EndTick(t)
Stops(a) == StopBegins(a) \/ StopEnds(a)

LifecycleNext ==
  \/ Enter \/ SubmitJob \/ Exit \/ Join \/ ComesDue
  \/ \E a \in Actors : Stops(a)
  \/ \E t \in Threads : Starts(t) \/ Loops(t)

\* The operating system runs every thread, and a job ends.  The server need
\* not shut down, and requests need not come.
LifecycleFairness ==
  /\ \A t \in Threads : WF_lifecycleVars(Starts(t) \/ Loops(t) \/ Stops(t))
  /\ WF_lifecycleVars(Stops(Lifespan) \/ Join)

LifecycleSpec == LifecycleInit /\ [][LifecycleNext]_lifecycleVars
LifecycleFairSpec == LifecycleSpec /\ LifecycleFairness

-----------------------------------------------------------------------------
(* Properties *)

\* The schedule queues one job each time it comes due, in whatever lifespans
\* and threads; a second one only because a call raised between the job's
\* insertion and the schedule's next run (system.py:145-146).
DueIsQueuedOnce == cycles <= periods + faults

\* Once stop is set a thread runs at most the jobs of the tick it is in.
LateWorkIsBounded == \A t \in Threads : late[t] <= MaxJobsPerTick

\* A system that stays stopped goes quiet: every thread of every lifespan
\* ends, also one that cleared the event while another was stopping.
StoppedGoesQuiet == <>[](~started) => <>[](\A t \in Threads : at[t] = "ended")
=============================================================================
