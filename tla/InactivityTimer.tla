-------------------------- MODULE InactivityTimer --------------------------
(***************************************************************************)
(* The inactivity timer of one resource (ipa_rm_inactivity_timer.c): a     *)
(* release is delayed, and a request made before the timeout cancels it.   *)
(* ipa_rm_inactivity_timer_request_resource() drops the spinlock before it *)
(* calls ipa_rm_request_resource(): in the gap the timer may expire and    *)
(* another thread may release, as the completion of a packet does while    *)
(* ipa_wwan_xmit() requests.  Requests come from one thread at a time, the *)
(* holder of the transmit queue's lock.                                    *)
(***************************************************************************)
VARIABLES
  inited,      \* ipa_rm_it_handles[].initied
  requested,   \* resource_requested
  resched,     \* reschedule_work
  wip,         \* work_in_progress
  timer,       \* the delayed work is queued
  wake,        \* the wakeup source is active
  gap,         \* a request has set the flag and not called the manager yet
  held,        \* the resource manager's request is outstanding
  overtaken    \* ghost: the timer has expired in the gap of a request that a
               \* release overtook, and no release came since

vars == <<inited, requested, resched, wip, timer, wake, gap, held, overtaken>>

TypeOK == \A b \in {inited, requested, resched, wip, timer, wake, gap, held, overtaken} :
             b \in BOOLEAN

Cleared == /\ requested' = FALSE /\ resched' = FALSE /\ wip' = FALSE
           /\ timer' = FALSE /\ wake' = FALSE /\ held' = FALSE /\ overtaken' = FALSE
           /\ UNCHANGED gap

\* ipa_rm_inactivity_timer_init(), for a resource that was just created.
TimerInit == ~inited /\ inited' = TRUE /\ Cleared

\* ipa_rm_inactivity_timer_destroy(): the work is cancelled and the handle
\* zeroed.  The client deletes the resource with it, no request being under way.
Destroy == inited /\ ~gap /\ inited' = FALSE /\ Cleared

\* ipa_rm_inactivity_timer_request_resource(), up to the unlock.
RequestFlag ==
  /\ inited /\ ~gap
  /\ requested' = TRUE /\ gap' = TRUE
  /\ UNCHANGED <<inited, resched, wip, timer, wake, held, overtaken>>

\* ... and the call of ipa_rm_request_resource(), whatever the flag says by now.
RequestCall ==
  /\ gap /\ gap' = FALSE /\ held' = TRUE
  /\ UNCHANGED <<inited, requested, resched, wip, timer, wake, overtaken>>

\* ipa_rm_inactivity_timer_release_resource(), at any time and by any thread:
\* arm the timer, or have the armed one start over.
Rearms == wip
Release ==
  /\ inited
  /\ requested' = FALSE /\ overtaken' = FALSE
  /\ IF Rearms
     THEN resched' = TRUE /\ UNCHANGED <<wip, timer, wake>>
     ELSE resched' = FALSE /\ wip' = TRUE /\ timer' = TRUE /\ wake' = TRUE
  /\ UNCHANGED <<inited, gap, held>>

\* ipa_rm_inactivity_timer_func(), all of it under the spinlock.
NotIdleIgnored == FALSE   \* mutant: the flag is not read
NotIdleAlways  == TRUE    \* mutant: nothing is ever released
NotIdle == requested
TimerFunc ==
  /\ timer
  /\ IF resched
     THEN resched' = FALSE /\ UNCHANGED <<wip, timer, wake, held, overtaken>>
     ELSE /\ wip' = FALSE /\ timer' = FALSE /\ UNCHANGED resched
          /\ IF NotIdle THEN UNCHANGED <<wake, held, overtaken>>
                        ELSE wake' = FALSE /\ held' = FALSE /\ overtaken' = gap
  /\ UNCHANGED <<inited, requested, gap>>

Init == /\ inited = FALSE /\ requested = FALSE /\ resched = FALSE /\ wip = FALSE
        /\ timer = FALSE /\ wake = FALSE /\ gap = FALSE /\ held = FALSE
        /\ overtaken = FALSE
Next == TimerInit \/ Destroy \/ RequestFlag \/ RequestCall \/ Release \/ TimerFunc
\* The timer fires; a request that was begun is finished.
Fairness == WF_vars(TimerFunc) /\ WF_vars(RequestCall)
Spec == Init /\ [][Next]_vars /\ Fairness
-----------------------------------------------------------------------------
\* A request whose call has returned, and that no thread has released since, has
\* its resource: an expiring timer never takes it away (the flag is read, and the
\* release made, under one spinlock), however releases by other threads and
\* expiries fell into the call.
RequestedIsHeld == (requested /\ ~gap) => held

\* Whatever is still held, or keeps the phone awake, is wanted or has a timer
\* that will let it go.  One case is left out: when a release by another thread
\* and the expiry it leads to both fall into the gap of a request, the request
\* is made after them and the resource is held until somebody's next release.
IdleIsReleased == /\ held => requested \/ wip \/ gap \/ overtaken
                  /\ wake => requested \/ wip
                  /\ wip <=> timer

\* The timer implements delayed release.
Lazy == INSTANCE LazyRelease WITH wanted <- requested, asking <- gap
ImplementsLazyRelease == Lazy!Spec
=============================================================================
