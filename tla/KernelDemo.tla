----------------------------- MODULE KernelDemo -----------------------------
(***************************************************************************)
(* The demonstrations of threads, delays and timers (thread_demo,          *)
(* delay_demo, timer_demo).  One of them is built into an image.  Time is  *)
(* counted in units of ten ticks, in a word that wraps.  The steps of the  *)
(* threads take far less than a tick: time passes when every thread waits. *)
(* Threads that are ready together run in any order, but for priority.     *)
(***************************************************************************)
EXTENDS Naturals

CONSTANTS
  Word,       \* values of the tick counter
  MaxElapsed  \* bound of the model: units of time that pass

VARIABLES
  demo,     \* the demonstration of the image
  pc,       \* the place of its main thread
  wake,     \* when the main thread goes on, or Ready
  now,      \* osKernelGetTickCount
  timer,    \* the software timer: does it run, when it expires, is its callback due
  times,    \* calls of the callback; the loop counter of timer_once
  thread,   \* the second thread of thread.c
  count,    \* the counter of the threads
  elapsed   \* history: units since the start, and while the second thread was there

vars == <<demo, pc, wake, now, timer, times, thread, count, elapsed>>

Ready == Word
After(n) == (now + n) % Word
NoTimer == [running |-> FALSE, expires |-> 0, due |-> FALSE]
NoThread == [state |-> "none", wake |-> Ready, high |-> FALSE]

Init ==
  /\ demo \in {"delay", "timer", "timer_once", "thread", "thread_basic"}
  /\ pc = "start" /\ now \in {0, Word - 5} /\ wake = Ready
  /\ timer = NoTimer /\ times = [called |-> 0, polled |-> 0]
  /\ thread = NoThread /\ count = 0 /\ elapsed = [all |-> 0, counting |-> 0]

\* The main thread runs unless the other is ready and of higher priority.
Runs == wake = Ready /\ ~(thread.state = "ready" /\ thread.wake = Ready /\ thread.high)
Goes(from, to) == pc = from /\ Runs /\ pc' = to
Sleep(n) == wake' = After(n)

(***************************************************************************)
(* delay.c                                                                 *)
(***************************************************************************)
rtosv2_delay_main ==
  /\ demo = "delay"
  /\ \/ Goes("start", "delayed") /\ Sleep(10)               \* osDelay(100)
     \/ Goes("delayed", "done") /\ wake' = After(10)         \* osDelayUntil(tick + 100)
  /\ UNCHANGED <<demo, now, timer, times, thread, count, elapsed>>

(***************************************************************************)
(* timer.c and timer_once.c                                                *)
(***************************************************************************)
Started(n) == [running |-> TRUE, expires |-> After(n), due |-> FALSE]

\* The timer may not be there, or not start; then the program ends.
timer_periodic ==
  /\ demo = "timer"
  /\ \/ Goes("start", "failed") /\ UNCHANGED <<timer, wake>>
     \/ Goes("start", "poll") /\ timer' = Started(10) /\ UNCHANGED wake
     \/ times.called < 3 /\ Goes("poll", "poll") /\ Sleep(10) /\ UNCHANGED timer
     \/ times.called >= 3 /\ Goes("poll", "stop") /\ UNCHANGED <<timer, wake>>
     \/ Goes("stop", "done") /\ timer' = [timer EXCEPT !.running = FALSE] /\ UNCHANGED wake
  /\ UNCHANGED <<demo, now, times, thread, count, elapsed>>

timer_once ==
  /\ demo = "timer_once"
  /\ \/ Goes("start", "create") /\ Sleep(10) /\ UNCHANGED <<timer, times>>
     \/ Goes("create", "failed") /\ UNCHANGED <<timer, wake, times>>
     \/ Goes("create", "poll") /\ timer' = Started(20) /\ UNCHANGED <<wake, times>>
     \/ times.polled < 10 /\ Goes("poll", "poll") /\ Sleep(1) /\ UNCHANGED timer
          /\ times' = [times EXCEPT !.polled = @ + 1]
     \/ times.polled = 10 /\ Goes("poll", "done") /\ UNCHANGED <<wake, times>>
          /\ timer' = [timer EXCEPT !.running = FALSE]
  /\ UNCHANGED <<demo, now, thread, count, elapsed>>

\* The task of the timers calls back.
Callback ==
  /\ timer.due
  /\ timer' = [timer EXCEPT !.due = FALSE]
  /\ times' = [times EXCEPT !.called = @ + 1]
  /\ UNCHANGED <<demo, pc, wake, now, thread, count, elapsed>>

(***************************************************************************)
(* thread.c and thread_basic.c                                             *)
(***************************************************************************)

\* newThread.  Where it fails, the calls that follow have no thread to act on.
newThread == thread' \in {[state |-> "ready", wake |-> Ready, high |-> FALSE], NoThread}
OnThread(change) == thread' = IF thread.state = "none" THEN thread ELSE change

threadMain ==
  /\ demo = "thread"
  /\ \/ Goes("start", "create") /\ Sleep(10) /\ UNCHANGED thread
     \/ Goes("create", "priority") /\ newThread /\ UNCHANGED wake
     \/ Goes("priority", "suspend") /\ OnThread([thread EXCEPT !.high = TRUE]) /\ UNCHANGED wake
     \/ Goes("suspend", "resume") /\ OnThread([thread EXCEPT !.state = "suspended"]) /\ UNCHANGED wake
     \/ Goes("resume", "wait") /\ OnThread([thread EXCEPT !.state = "ready"]) /\ UNCHANGED wake
     \/ Goes("wait", "terminate") /\ Sleep(10) /\ UNCHANGED thread
     \/ Goes("terminate", "done") /\ OnThread([thread EXCEPT !.state = "terminated"]) /\ UNCHANGED wake
  /\ UNCHANGED <<demo, now, timer, times, count, elapsed>>

\* Mutant: the thread counts while it is suspended or terminated.
threadTestAlways ==
  /\ thread.state # "none" /\ thread.wake = Ready
  /\ count' = count + 1
  /\ thread' = [thread EXCEPT !.wake = After(2)]
  /\ UNCHANGED <<demo, pc, wake, now, timer, times, elapsed>>

threadTest ==
  /\ thread.state = "ready" /\ thread.wake = Ready
  /\ count' = count + 1
  /\ thread' = [thread EXCEPT !.wake = After(2)]
  /\ UNCHANGED <<demo, pc, wake, now, timer, times, elapsed>>

rtosv2_thread_main ==
  /\ demo = "thread_basic"
  /\ \/ Goes("start", "count") /\ Sleep(10) /\ UNCHANGED count
     \/ Goes("count", "count") /\ count' = count + 1 /\ Sleep(1)
  /\ UNCHANGED <<demo, now, timer, times, thread, elapsed>>

(***************************************************************************)
(* The kernel.                                                             *)
(***************************************************************************)
ThreadReady == thread.state = "ready" /\ thread.wake = Ready
Woken(w, t) == IF w = t THEN Ready ELSE w

\* Time passes when the main thread waits or has ended and nothing else is ready.
Tick ==
  /\ elapsed.all < MaxElapsed
  /\ wake # Ready \/ pc \in {"done", "failed"}
  /\ ~ThreadReady /\ ~timer.due
  /\ LET t == After(1)
         expires == timer.running /\ timer.expires = t
     IN  /\ now' = t
         /\ wake' = Woken(wake, t)
         /\ thread' = [thread EXCEPT !.wake = Woken(@, t)]
         /\ timer' = IF expires
                     THEN [running |-> demo = "timer", expires |-> (t + 10) % Word, due |-> TRUE]
                     ELSE timer
  /\ elapsed' = [all |-> elapsed.all + 1,
                 counting |-> IF thread.state \in {"none", "terminated"} THEN elapsed.counting
                             ELSE elapsed.counting + 1]
  /\ UNCHANGED <<demo, pc, times, count>>

Main == rtosv2_delay_main \/ timer_periodic \/ timer_once \/ threadMain
Next == Main \/ Callback \/ threadTest \/ rtosv2_thread_main \/ Tick

\* Fairness: what is ready runs in the end, and time passes.
Spec == Init /\ [][Next]_vars /\ WF_vars(Main) /\ WF_vars(Callback) /\ WF_vars(threadTest) /\ WF_vars(Tick)

(***************************************************************************)
(* Properties.                                                             *)
(***************************************************************************)

\* Types: places and times of the threads and the timer.
TypeOK ==
  /\ pc \in {"start", "delayed", "create", "poll", "stop", "priority", "suspend", "resume",
             "wait", "terminate", "count", "done", "failed"}
  /\ wake \in 0 .. Word /\ now \in 0 .. Word - 1
  /\ timer \in [running : BOOLEAN, expires : 0 .. Word - 1, due : BOOLEAN]
  /\ times.called \in Nat /\ times.polled \in 0 .. 20
  /\ thread.state \in {"none", "ready", "suspended", "terminated"}
  /\ thread.wake \in 0 .. Word /\ thread.high \in BOOLEAN
  /\ count \in Nat /\ elapsed.all \in 0 .. MaxElapsed

\* The timer that is stopped in time is never called back, and the periodic one is stopped
\* after three calls, or a fourth that falls on the tick of the last look at the counter.
TimerCalls ==
  /\ demo = "timer_once" => times.called = 0
  /\ demo = "timer" => times.called <= 4 /\ (pc \in {"stop", "done"} => times.called >= 3)

\* The thread counts once for each delay it was given: not while it is suspended, and not
\* after its termination.
CountPaced == demo = "thread" => count <= elapsed.counting \div 2 + 1

\* The main thread comes to its end though the other has the higher priority.
MainEnds == demo \in {"delay", "timer", "timer_once", "thread"} ~> pc \in {"done", "failed"}
=============================================================================
