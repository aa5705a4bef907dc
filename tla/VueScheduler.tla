---------------------------- MODULE VueScheduler ----------------------------
(***************************************************************************)
(* The part of vue.js 2.5.16 that decides when a page reacts: nextTick and *)
(* its two timers, the queue of watchers, and their flush.  A scheduler is *)
(* a record that the handlers of a page transform:                         *)
(*   callbacks  functions registered with nextTick and not yet taken       *)
(*   copies     the ones flushCallbacks has taken and still has to call    *)
(*   pending    the timer that will call flushCallbacks, a microtask or a  *)
(*              task of the event loop                                     *)
(*   queue      watchers waiting for flushSchedulerQueue                   *)
(* The page's watchers do not notify each other, so that nothing joins the *)
(* queue while it is flushed.                                              *)
(***************************************************************************)
EXTENDS Naturals, Sequences

CONSTANTS Watchers, Callbacks

ASSUME FlushIsACallback == "flush" \in Callbacks

Schedulers == [callbacks : Seq(Callbacks), copies : Seq(Callbacks),
               pending : {"none", "microtask", "task"}, queue : SUBSET Watchers]

Quiet == [callbacks |-> <<>>, copies |-> <<>>, pending |-> "none", queue |-> {}]

\* The first callback starts the timer: a task if withMacroTask runs the handler of a
\* DOM event, a microtask otherwise.
NextTick(vue, callback, inHandler) ==
    [vue EXCEPT !.callbacks = Append(@, callback),
                !.pending = IF @ # "none" THEN @
                            ELSE IF inHandler THEN "task" ELSE "microtask"]

\* Mutant: waiting is tested before the watcher is queued, not after.
QueueOnlyWhenIdle(vue, watchers, inHandler) ==
    IF watchers = {} \/ vue.queue # {} THEN vue
    ELSE NextTick([vue EXCEPT !.queue = watchers], "flush", inHandler)

\* Dep.notify and queueWatcher: a watcher is queued once, and the first of the queue
\* registers the flush.
Notify(vue, watchers, inHandler) ==
    IF watchers = {} THEN vue
    ELSE LET queued == [vue EXCEPT !.queue = @ \cup watchers]
         IN  IF vue.queue = {} THEN NextTick(queued, "flush", inHandler) ELSE queued

\* flushCallbacks takes all callbacks, so that what they register waits for a new timer.
FlushCallbacks(vue) ==
    [vue EXCEPT !.copies = vue.callbacks, !.callbacks = <<>>, !.pending = "none"]

\* The callback that is called leaves the copies.
Called(vue) == [vue EXCEPT !.copies = Tail(@)]

\* What flushSchedulerQueue leaves: resetSchedulerState.
Flushed(vue) == [Called(vue) EXCEPT !.queue = {}]
=============================================================================
