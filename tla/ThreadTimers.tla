---------------------------- MODULE ThreadTimers ----------------------------
(***************************************************************************)
(* SIGEV_THREAD timers of libc/bionic/pthread-timers.c: the table of       *)
(* timers, the timer_xxx calls of the program, the thread of each timer,   *)
(* and the stopping of all timers around fork, which module Fork composes  *)
(* with the rest of fork.                                                  *)
(*                                                                         *)
(* What is done inside the mutex of a timer or of the table is one action. *)
(* Time is abstracted to whether an expiration time is "zero" (disarmed),  *)
(* "ahead" or "past"; overrun counts are left out.  A timer has one        *)
(* waiting thread, so a signal ends its wait, as CondVar shows.            *)
(***************************************************************************)
EXTENDS Integers, Sequences, Functions

CONSTANTS
  MAX_THREAD_TIMERS, \* the entries of the table
  Programs,  \* threads of the program; a timer is used by its creator and by its
             \* own callback
  Forkers,   \* the threads that call fork
  Settings,  \* it_value and it_interval given to timer_settime
  None

ASSUME ThreadTimersAssumption ==
  /\ MAX_THREAD_TIMERS \in Nat \ {0}
  /\ None \notin Nat \cup Programs
  /\ Forkers \subseteq Programs
  /\ Settings \subseteq [value : {"zero", "ahead", "past"}, period : {"zero", "some"}]

VARIABLES
  free_timer, \* the free list
  id,         \* per timer: "valid", or "none" (TIMER_ID_NONE)
  done, stopped,      \* sets of timers
  expires, period,
  thread,     \* where the thread of a timer is, see TypeOK
  alarm,      \* local 'expires' of that thread: its wait ends when "past"
  alarmPeriod,\* local 'period' of that thread
  stale,      \* timers set since their thread has read the setting
  op,         \* what a program thread is doing in this library, see TypeOK
  subject,    \* the timer that is about
  made        \* the timers each program thread has created and not deleted

Timers == 1 .. MAX_THREAD_TIMERS

table == <<free_timer, id>>
timer == <<done, stopped, expires, period, stale>>
loop == <<thread, alarm, alarmPeriod>>
timerVars == <<table, timer, loop, op, subject, made>>

TimersInit ==
  /\ free_timer = [s \in Timers |-> s]
  /\ id = [s \in Timers |-> "none"]
  /\ done = {} /\ stopped = {} /\ stale = {}
  /\ expires = [s \in Timers |-> "zero"]
  /\ period = [s \in Timers |-> "zero"]
  /\ thread = [s \in Timers |-> "none"]
  /\ alarm = [s \in Timers |-> "zero"]
  /\ alarmPeriod = [s \in Timers |-> "zero"]
  /\ op = [p \in Programs |-> "none"]
  /\ subject = [p \in Programs |-> None]
  /\ made = [p \in Programs |-> {}]

Begin(p, step, s) ==
  /\ op' = [op EXCEPT ![p] = step]
  /\ subject' = [subject EXCEPT ![p] = s]

End(p) == Begin(p, "none", None)

\* What pthread_cond_signal on the condition variable of timer s does to threads.
Signalled(s, threads) ==
  IF threads[s] \in {"wait", "timedwait"} THEN [threads EXCEPT ![s] = "loop"] ELSE threads

-----------------------------------------------------------------------------
(***************************************************************************)
(* timer_create: take an entry, which makes its id valid; then initialise  *)
(* it and create its thread.  Only a negative result of pthread_create is  *)
(* taken for a failure, and pthread_create returns none, so the call       *)
(* succeeds in either case.                                                *)
(***************************************************************************)
thr_timer_table_alloc(p) ==
  /\ op[p] = "none"
  /\ free_timer # <<>>
  /\ free_timer' = Tail(free_timer)
  /\ id' = [id EXCEPT ![Head(free_timer)] = "valid"]
  /\ Begin(p, "create", Head(free_timer))
  /\ UNCHANGED <<timer, loop, made>>

timer_create(p, outcome) ==
  LET s == subject[p] IN
  /\ op[p] = "create"
  /\ done' = done \ {s}
  /\ stopped' = stopped \ {s}
  /\ expires' = [expires EXCEPT ![s] = "zero"]
  /\ period' = [period EXCEPT ![s] = "zero"]
  /\ stale' = stale \ {s}
  /\ thread' = [thread EXCEPT ![s] = IF outcome = "ok" THEN "loop" ELSE "none"]
  /\ made' = [made EXCEPT ![p] = @ \cup {s}]
  /\ End(p)
  /\ UNCHANGED <<table, alarm, alarmPeriod>>

\* The part of timer_settime inside the timer's mutex.
SetTimer(s, setting) ==
  /\ expires' = [expires EXCEPT ![s] = setting.value]
  /\ period' = [period EXCEPT ![s] = setting.period]
  /\ stale' = stale \cup {s}
  /\ UNCHANGED <<done, stopped>>

timer_settime(p, s, setting) ==
  /\ op[p] = "none"
  /\ s \in made[p]
  /\ id[s] = "valid"
  /\ SetTimer(s, setting)
  /\ Begin(p, "signal", s)
  /\ UNCHANGED <<table, loop, made>>

\* Mutant of SettimeSignal: the signal is forgotten.
SettimeNoSignal(p) ==
  /\ op[p] = "signal"
  /\ End(p)
  /\ UNCHANGED <<table, timer, loop, made>>

\* The signal at the end of timer_settime, after the unlock.
SettimeSignal(p) ==
  /\ op[p] = "signal"
  /\ thread' = Signalled(subject[p], thread)
  /\ End(p)
  /\ UNCHANGED <<table, timer, alarm, alarmPeriod, made>>

\* The callback of timer s calls timer_settime for its own timer, which has no
\* waiting thread to signal.
CallbackSettime(s, setting) ==
  /\ thread[s] = "callback"
  /\ id[s] = "valid"
  /\ SetTimer(s, setting)
  /\ UNCHANGED <<table, loop, op, subject, made>>

\* thr_timer_table_from_id with 'remove': from here on nobody finds the timer.
DeleteRemove(p, s) ==
  /\ op[p] = "none"
  /\ s \in made[p]
  /\ id[s] = "valid"
  /\ id' = [id EXCEPT ![s] = "none"]
  /\ made' = [made EXCEPT ![p] = @ \ {s}]
  /\ Begin(p, "delete", s)
  /\ UNCHANGED <<free_timer, timer, loop>>

\* Mutant of timer_delete: it frees the entry, as the thread will.
timer_deleteFrees(p) ==
  /\ op[p] = "delete"
  /\ done' = done \cup {subject[p]}
  /\ thread' = Signalled(subject[p], thread)
  /\ free_timer' = <<subject[p]>> \o free_timer
  /\ End(p)
  /\ UNCHANGED <<id, stopped, expires, period, stale, alarm, alarmPeriod, made>>

\* Mutant of timer_delete: the thread is not signalled.
timer_deleteNoSignal(p) ==
  /\ op[p] = "delete"
  /\ done' = done \cup {subject[p]}
  /\ End(p)
  /\ UNCHANGED <<table, stopped, expires, period, stale, loop, made>>

timer_delete(p) ==
  /\ op[p] = "delete"
  /\ done' = done \cup {subject[p]}
  /\ thread' = Signalled(subject[p], thread)
  /\ End(p)
  /\ UNCHANGED <<table, stopped, expires, period, stale, alarm, alarmPeriod, made>>

(***************************************************************************)
(* __timer_table_start_stop at the beginning of fork and, in the parent,   *)
(* after the system call.  It signals the thread of every timer that has a *)
(* valid id.                                                               *)
(***************************************************************************)
WakeAll ==
  thread' = [s \in Timers |-> IF id[s] = "valid" THEN Signalled(s, thread)[s] ELSE thread[s]]

Valid == {s \in Timers : id[s] = "valid"}

ForkStop(p) ==
  /\ p \in Forkers
  /\ op[p] = "none"
  /\ stopped' = stopped \cup Valid
  /\ WakeAll
  /\ Begin(p, "prepare", None)
  /\ UNCHANGED <<table, done, expires, period, stale, alarm, alarmPeriod, made>>

ForkStart(p) ==
  /\ op[p] = "start"
  /\ stopped' = stopped \ Valid
  /\ WakeAll
  /\ Begin(p, "parent", None)
  /\ UNCHANGED <<table, done, expires, period, stale, alarm, alarmPeriod, made>>

-----------------------------------------------------------------------------
\* The thread has no use for its copies of the setting any more.
NoAlarm(s) ==
  /\ alarm' = [alarm EXCEPT ![s] = "zero"]
  /\ alarmPeriod' = [alarmPeriod EXCEPT ![s] = "zero"]

(***************************************************************************)
(* timer_thread_start.  Reload stands for what follows a timeout: the next *)
(* expiration time, computed from the values the thread has read (it may   *)
(* be past already), is stored, and the callback runs.                     *)
(***************************************************************************)
Reload(s, per) ==
  /\ \E next \in IF per = "zero" THEN {"zero"} ELSE {"ahead", "past"} :
       expires' = [expires EXCEPT ![s] = next]
  /\ thread' = [thread EXCEPT ![s] = "callback"]
  /\ NoAlarm(s)

\* From the top of the loop, or the return from a wait with 0, with the mutex.
Loop(s) ==
  /\ thread[s] = "loop"
  /\ stale' = stale \ {s}
  /\ \/ /\ s \in done
        /\ thread' = [thread EXCEPT ![s] = "free"]
        /\ NoAlarm(s)
        /\ UNCHANGED expires
     \/ /\ s \notin done
        /\ s \in stopped \/ expires[s] = "zero"
        /\ thread' = [thread EXCEPT ![s] = "wait"]
        /\ NoAlarm(s)
        /\ UNCHANGED expires
     \/ /\ s \notin done \cup stopped
        /\ expires[s] = "ahead"
        /\ thread' = [thread EXCEPT ![s] = "timedwait"]
        /\ alarm' = [alarm EXCEPT ![s] = "ahead"]
        /\ alarmPeriod' = [alarmPeriod EXCEPT ![s] = period[s]]
        /\ UNCHANGED expires
     \/ /\ s \notin done \cup stopped
        /\ expires[s] = "past"
        /\ Reload(s, period[s])
  /\ UNCHANGED <<table, done, stopped, period, op, subject, made>>

\* The timed wait ends with ETIMEDOUT; the mutex is still to be locked.
TimerTimedOut(s) ==
  /\ thread[s] = "timedwait"
  /\ alarm[s] = "past"
  /\ thread' = [thread EXCEPT ![s] = "timedout"]
  /\ UNCHANGED <<table, timer, alarm, alarmPeriod, op, subject, made>>

\* With the mutex after ETIMEDOUT: nothing is looked at again.
LoopTimedOut(s) ==
  /\ thread[s] = "timedout"
  /\ Reload(s, alarmPeriod[s])
  /\ UNCHANGED <<table, done, stopped, period, stale, op, subject, made>>

\* A wait ends because of a signal handler.
TimerInterrupted(s) ==
  /\ thread[s] \in {"wait", "timedwait"}
  /\ thread' = Signalled(s, thread)
  /\ UNCHANGED <<table, timer, alarm, alarmPeriod, op, subject, made>>

CallbackReturns(s) ==
  /\ thread[s] = "callback"
  /\ thread' = [thread EXCEPT ![s] = "loop"]
  /\ UNCHANGED <<table, timer, alarm, alarmPeriod, op, subject, made>>

thr_timer_table_free(s) ==
  /\ thread[s] = "free"
  /\ id' = [id EXCEPT ![s] = "none"]
  /\ free_timer' = <<s>> \o free_timer
  /\ thread' = [thread EXCEPT ![s] = "none"]
  /\ UNCHANGED <<timer, alarm, alarmPeriod, op, subject, made>>

(***************************************************************************)
(* Time passes.  A thread that waits with the current setting is due when  *)
(* the timer is.                                                           *)
(***************************************************************************)
TimerExpire(s) ==
  /\ expires[s] = "ahead"
  /\ expires' = [expires EXCEPT ![s] = "past"]
  /\ alarm' = IF s \notin stale /\ alarm[s] = "ahead" THEN [alarm EXCEPT ![s] = "past"] ELSE alarm
  /\ UNCHANGED <<table, done, stopped, period, stale, thread, alarmPeriod, op, subject, made>>

ExpireOld(s) ==
  /\ s \in stale
  /\ alarm[s] = "ahead"
  /\ alarm' = [alarm EXCEPT ![s] = "past"]
  /\ UNCHANGED <<table, timer, thread, alarmPeriod, op, subject, made>>

\* The steps of this module, but for fork's.
TimersNext ==
  \/ \E p \in Programs :
       \/ thr_timer_table_alloc(p) \/ \E o \in {"ok", "fail"} : timer_create(p, o)
       \/ \E s \in Timers :
            DeleteRemove(p, s) \/ \E setting \in Settings : timer_settime(p, s, setting)
       \/ SettimeSignal(p) \/ timer_delete(p)
  \/ \E s \in Timers :
       \/ Loop(s) \/ TimerTimedOut(s) \/ LoopTimedOut(s) \/ TimerInterrupted(s)
       \/ CallbackReturns(s) \/ thr_timer_table_free(s)
       \/ \E setting \in Settings : CallbackSettime(s, setting)
       \/ TimerExpire(s) \/ ExpireOld(s)

\* Calls that have begun are finished, the threads of timers are scheduled, callbacks
\* return and time passes.
TimersFairness ==
  /\ \A p \in Programs :
       WF_timerVars(SettimeSignal(p) \/ timer_delete(p)
                    \/ \E o \in {"ok", "fail"} : timer_create(p, o))
  /\ \A s \in Timers :
       /\ WF_timerVars(Loop(s) \/ TimerTimedOut(s) \/ LoopTimedOut(s)
                       \/ CallbackReturns(s) \/ thr_timer_table_free(s))
       /\ WF_timerVars(TimerExpire(s) \/ ExpireOld(s))

-----------------------------------------------------------------------------
\* Type invariant.
TimersTypeOK ==
  /\ free_timer \in Seq(Timers)
  /\ id \in [Timers -> {"valid", "none"}]
  /\ done \subseteq Timers /\ stopped \subseteq Timers /\ stale \subseteq Timers
  /\ expires \in [Timers -> {"zero", "ahead", "past"}]
  /\ period \in [Timers -> {"zero", "some"}]
  /\ thread \in [Timers -> {"none", "loop", "wait", "timedwait", "timedout", "callback", "free"}]
  /\ alarm \in [Timers -> {"zero", "ahead", "past"}]
  /\ alarmPeriod \in [Timers -> {"zero", "some"}]
  /\ op \in [Programs -> {"none", "create", "signal", "delete", "prepare", "fork", "start", "parent"}]
  /\ subject \in [Programs -> Timers \cup {None}]
  /\ made \in [Programs -> SUBSET Timers]

\* "the object and its timer_id cannot be reused before that" (timer_delete): an
\* entry is in the free list at most once, and only when nobody has it: no program
\* thread that creates, owns or deletes it and no timer thread.
FreeMeansUnused ==
  /\ IsInjective(free_timer)
  /\ \A s \in Range(free_timer) :
       /\ thread[s] = "none"
       /\ \A p \in Programs : subject[p] # s /\ s \notin made[p]

\* A deleted timer's entry returns to the free list, wherever its thread was.
DeletedFreed ==
  \A s \in Timers : s \in done /\ thread[s] # "none" ~> s \in Range(free_timer)

\* A timer whose time has come calls back, unless it is set again, stopped or
\* deleted: no signal of timer_settime or of the restart after a fork is lost.
DueFires ==
  \A s \in Timers :
    thread[s] # "none" /\ expires[s] = "past" ~>
      thread[s] = "callback" \/ expires[s] # "past" \/ s \in stopped \cup done
=============================================================================
