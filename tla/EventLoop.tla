----------------------------- MODULE EventLoop ------------------------------
(***************************************************************************)
(* net::EventLoop (src/net/event_loop.cpp): the loop thread, the threads   *)
(* that hand it functors with run_in_loop() and queue_in_loop(), and       *)
(* quit().                                                                 *)
(*                                                                         *)
(* The eventfd is level-triggered in epoll, and only whether its counter   *)
(* is zero matters.  epoll_wait() also returns after 10 ms; the model      *)
(* allows that and never relies on it.  The other channels of the loop     *)
(* appear as handlers that may queue or run functors and may quit.         *)
(***************************************************************************)
EXTENDS Naturals, Sequences

CONSTANT Functors   \* each handed to the loop at most once

VARIABLES
  lpc,       \* where the loop thread is
  quit,      \* quit_
  signalled, \* the counter of wakeup_fd_ is not zero
  woken,     \* wakeup_channel_ is among active_channels_, not yet handled
  pending,   \* pending_functors_
  calling,   \* calling_pending_functors_
  functors,  \* do_pending_functors(): the local vector, what is left of it
  fpc,       \* for every functor, where the thread that hands it over is
  qpc,       \* where the thread that calls quit() is
  queued,    \* history: functors in the order in which they were queued
  ran        \* history: queued functors in the order in which they ran

vars == <<lpc, quit, signalled, woken, pending, calling, functors, fpc, qpc, queued, ran>>

Init ==
  /\ lpc = "created"
  /\ quit = FALSE
  /\ signalled = FALSE
  /\ woken = FALSE
  /\ pending = <<>>
  /\ calling = FALSE
  /\ functors = <<>>
  /\ fpc = [f \in Functors |-> "new"]
  /\ qpc = "idle"
  /\ queued = <<>>
  /\ ran = <<>>

-----------------------------------------------------------------------------
(***************************************************************************)
(* Other threads.                                                          *)
(***************************************************************************)

\* The critical section of queue_in_loop().
Push(f) ==
  /\ pending' = Append(pending, f)
  /\ queued' = Append(queued, f)

\* run_in_loop() or queue_in_loop() in a thread that is not the loop's.
Queue(f) ==
  /\ fpc[f] = "new"
  /\ Push(f)
  /\ fpc' = [fpc EXCEPT ![f] = "wakeup"]
  /\ UNCHANGED <<lpc, quit, signalled, woken, calling, functors, qpc, ran>>

Wakeup(f) ==
  /\ fpc[f] = "wakeup"
  /\ signalled' = TRUE
  /\ fpc' = [fpc EXCEPT ![f] = "queued"]
  /\ UNCHANGED <<lpc, quit, woken, pending, calling, functors, qpc, queued, ran>>

\* quit() in another thread: the store, then wakeup().
Quit ==
  /\ qpc = "idle"
  /\ quit' = TRUE
  /\ qpc' = "wakeup"
  /\ UNCHANGED <<lpc, signalled, woken, pending, calling, functors, fpc, queued, ran>>

\* Mutant of QuitWakeup: no wakeup().
QuitSilent ==
  /\ qpc = "wakeup"
  /\ qpc' = "done"
  /\ UNCHANGED <<lpc, quit, signalled, woken, pending, calling, functors, fpc, queued, ran>>

QuitWakeup ==
  /\ qpc = "wakeup"
  /\ signalled' = TRUE
  /\ qpc' = "done"
  /\ UNCHANGED <<lpc, quit, woken, pending, calling, functors, fpc, queued, ran>>

-----------------------------------------------------------------------------
(***************************************************************************)
(* The loop thread.                                                        *)
(***************************************************************************)

\* loop(): quit_.store(false)
Start ==
  /\ lpc = "created"
  /\ quit' = FALSE
  /\ lpc' = "check"
  /\ UNCHANGED <<signalled, woken, pending, calling, functors, fpc, qpc, queued, ran>>

\* while (!quit_.load())
Check ==
  /\ lpc = "check"
  /\ lpc' = IF quit THEN "returned" ELSE "poll"
  /\ UNCHANGED <<quit, signalled, woken, pending, calling, functors, fpc, qpc, queued, ran>>

\* epoll_wait() returns with the wakeup channel ...
PollWoken ==
  /\ lpc = "poll"
  /\ signalled
  /\ woken' = TRUE
  /\ lpc' = "handle"
  /\ UNCHANGED <<quit, signalled, pending, calling, functors, fpc, qpc, queued, ran>>

\* ... or with other channels only, or after 10 ms with none.
PollOther ==
  /\ lpc = "poll"
  /\ lpc' = "handle"
  /\ UNCHANGED <<quit, signalled, woken, pending, calling, functors, fpc, qpc, queued, ran>>

\* handle_event() of the wakeup channel: handle_read().
HandleRead ==
  /\ lpc = "handle"
  /\ woken
  /\ signalled' = FALSE
  /\ woken' = FALSE
  /\ UNCHANGED <<lpc, quit, pending, calling, functors, fpc, qpc, queued, ran>>

\* All active channels are handled: calling_pending_functors_.store(true).
Handled ==
  /\ lpc = "handle"
  /\ ~woken
  /\ calling' = TRUE
  /\ lpc' = "swap"
  /\ UNCHANGED <<quit, signalled, woken, pending, functors, fpc, qpc, queued, ran>>

\* Mutant of Swap: the new batch replaces what the loop has not run yet and
\* what is pending stays.
SwapCopies ==
  /\ lpc = "swap"
  /\ functors' = pending
  /\ lpc' = "run"
  /\ UNCHANGED <<quit, signalled, woken, pending, calling, fpc, qpc, queued, ran>>

\* functors.swap(pending_functors_), under mutex_.
Swap ==
  /\ lpc = "swap"
  /\ functors' = pending
  /\ pending' = <<>>
  /\ lpc' = "run"
  /\ UNCHANGED <<quit, signalled, woken, calling, fpc, qpc, queued, ran>>

\* f() returns and the for loop goes on.
RunFunctor ==
  /\ lpc = "run"
  /\ functors # <<>>
  /\ ran' = Append(ran, Head(functors))
  /\ functors' = Tail(functors)
  /\ UNCHANGED <<lpc, quit, signalled, woken, pending, calling, fpc, qpc, queued>>

\* calling_pending_functors_.store(false)
RunDone ==
  /\ lpc = "run"
  /\ functors = <<>>
  /\ calling' = FALSE
  /\ lpc' = "check"
  /\ UNCHANGED <<quit, signalled, woken, pending, functors, fpc, qpc, queued, ran>>

\* The loop thread executes a handler or a functor.
InCallback == lpc = "handle" \/ (lpc = "run" /\ functors # <<>>)

\* Mutant of WakesItself: the loop never wakes itself up.
WakesNever == FALSE

\* !is_in_loop_thread() || calling_pending_functors_.load(), in the loop.
WakesItself == calling

\* queue_in_loop() from a handler or from a functor.
QueueInLoop(f) ==
  /\ InCallback
  /\ fpc[f] = "new"
  /\ Push(f)
  /\ signalled' = (signalled \/ WakesItself)
  /\ fpc' = [fpc EXCEPT ![f] = "queued"]
  /\ UNCHANGED <<lpc, quit, woken, calling, functors, qpc, ran>>

\* run_in_loop() from a handler or from a functor: f() at once.
RunInLoop(f) ==
  /\ InCallback
  /\ fpc[f] = "new"
  /\ fpc' = [fpc EXCEPT ![f] = "inline"]
  /\ UNCHANGED <<lpc, quit, signalled, woken, pending, calling, functors, qpc, queued, ran>>

\* quit() from a handler or from a functor: no wakeup().
QuitInLoop ==
  /\ InCallback
  /\ ~quit
  /\ quit' = TRUE
  /\ UNCHANGED <<lpc, signalled, woken, pending, calling, functors, fpc, qpc, queued, ran>>

LoopStep ==
  \/ Check \/ PollWoken \/ HandleRead \/ Handled \/ Swap \/ RunFunctor \/ RunDone

Next ==
  \/ \E f \in Functors : Queue(f) \/ Wakeup(f) \/ QueueInLoop(f) \/ RunInLoop(f)
  \/ Quit \/ QuitWakeup \/ QuitInLoop
  \/ Start \/ LoopStep \/ PollOther

Spec == Init /\ [][Next]_vars

\* The threads run, loop() is called and callbacks return.  epoll_wait()
\* returns when the eventfd is readable; that it returns otherwise (a socket,
\* the timeout) is not assumed.
Fairness ==
  /\ WF_vars(Start)
  /\ WF_vars(LoopStep)
  /\ \A f \in Functors : WF_vars(Wakeup(f))
  /\ WF_vars(QuitWakeup)

FairSpec == Spec /\ Fairness

-----------------------------------------------------------------------------
(***************************************************************************)
(* Properties.                                                             *)
(***************************************************************************)
\* The types of the variables.
TypeOK ==
  /\ lpc \in {"created", "check", "poll", "handle", "swap", "run", "returned"}
  /\ quit \in BOOLEAN /\ signalled \in BOOLEAN /\ woken \in BOOLEAN /\ calling \in BOOLEAN
  /\ pending \in Seq(Functors) /\ functors \in Seq(Functors)
  /\ queued \in Seq(Functors) /\ ran \in Seq(Functors)
  /\ fpc \in [Functors -> {"new", "wakeup", "queued", "inline"}]
  /\ qpc \in {"idle", "wakeup", "done"}

\* Functors run in the order in which they were queued, each once, across
\* batches and however queue_in_loop() interleaves with the swap.
RunsInOrder == queued = ran \o functors \o pending

\* A wakeup() that queue_in_loop() or quit() still owes the loop.
WakeupDue == signalled \/ qpc = "wakeup" \/ \E f \in Functors : fpc[f] = "wakeup"

\* The loop does not sit in epoll_wait() while a functor is pending or quit()
\* was called, unless the eventfd is readable or about to be.
NoLostWakeup == lpc = "poll" /\ (pending # <<>> \/ quit) => WakeupDue

\* What the loop knows of itself when it goes on to poll.
LoopInv ==
  /\ calling <=> lpc \in {"swap", "run"}
  /\ woken => lpc = "handle"
  /\ functors # <<>> => lpc = "run"

\* Why no wakeup is lost: a functor that is pending after the swap, and a
\* quit() after loop() has started, come with a wakeup() or will be seen by
\* the loop before it polls.
WakeupInv ==
  /\ pending # <<>> /\ lpc \in {"created", "run", "check", "poll"} => WakeupDue
  /\ quit /\ lpc = "poll" => WakeupDue

\* The inductive invariant of the event loop.
EventLoopInv == TypeOK /\ LoopInv /\ RunsInOrder /\ WakeupInv

RanFunctor(f) == \E n \in DOMAIN ran : ran[n] = f

\* A queued functor runs, unless the loop quits: the eventfd alone sees to it,
\* without the 10 ms timeout of epoll_wait().
FunctorsRun ==
  \A f \in Functors : (fpc[f] \in {"wakeup", "queued"}) ~> (RanFunctor(f) \/ lpc = "returned")

\* quit() on a running loop ends it, from whatever thread it is called.
QuitEndsLoop == (quit /\ lpc # "created") ~> (lpc = "returned")

(***************************************************************************)
(* What the repository says of the loop and the code does not do.          *)
(***************************************************************************)

\* rpc_server.h:21, start() "blocks until quit() is called": once quit() has
\* been called, loop() returns, also when the call came just before loop().
QuitIsNotLost == (qpc = "wakeup") ~> (lpc = "returned")
=============================================================================
