------------------------------ MODULE Throttle ------------------------------
(***************************************************************************)
(* crawler_v2/throttle.rs, DomainThrottle::wait, as the workers of one     *)
(* process call it around fetcher.fetch: a semaphore of one permit per     *)
(* domain (tokio's is fair: a released permit goes to the longest waiter), *)
(* a politeness sleep computed from the last stamp, the stamp, the fetch,  *)
(* and the drop of the permit.  Computing the sleep, ending it and         *)
(* stamping are separate steps between which other tasks run and time      *)
(* passes.  The domain is the host the url names: a fetch that is          *)
(* redirected elsewhere goes on under the permit it has.                   *)
(***************************************************************************)
EXTENDS Naturals, Sequences

CONSTANTS Tasks,        \* the workers that share the throttle
          Domains,
          NoTask,       \* the permit is available
          MinInterval,  \* ThrottleConfig.min_interval, in clock ticks
          Jitter        \* ThrottleConfig.jitter: the sleep adds less than that

ASSUME NoTaskAssumption == NoTask \notin Tasks
ASSUME TimeAssumption   == MinInterval \in Nat /\ Jitter \in Nat

MaxWait == MinInterval + Jitter

VARIABLES
  task,       \* task[t]: "idle", "waiting" (acquire), "sleep", "fetch"
  dom,        \* dom[t]: the domain t waits for or has the permit of
  holder,     \* holder[d]: who has d's permit
  queue,      \* queue[d]: who waits for it, in order
  since,      \* since[d]: ticks since d's last_fetched, MaxWait = that or more
  remaining   \* remaining[t]: what is left of t's sleep

throttleVars == <<task, dom, holder, queue, since, remaining>>

Jitters == IF Jitter = 0 THEN {0} ELSE 0 .. (Jitter - 1)

ThrottleInit ==
  /\ task = [t \in Tasks |-> "idle"]
  /\ dom \in [Tasks -> Domains]
  /\ holder = [d \in Domains |-> NoTask]
  /\ queue = [d \in Domains |-> <<>>]
  /\ since = [d \in Domains |-> MaxWait]      \* never fetched: no sleep
  /\ remaining = [t \in Tasks |-> 0]

\* Mutant: a new semaphore per call instead of get_or_insert_with.
AcquireFresh(t, d) == /\ holder' = [holder EXCEPT ![d] = t]
                      /\ UNCHANGED queue

\* acquire_owned: take the permit, or join the queue for it.
Acquire(t, d) ==
  IF holder[d] = NoTask
  THEN holder' = [holder EXCEPT ![d] = t] /\ UNCHANGED queue
  ELSE queue' = [queue EXCEPT ![d] = Append(@, t)] /\ UNCHANGED holder

\* A worker pops a url of domain d and calls wait(d).
Request(t, d) ==
  /\ task[t] = "idle"
  /\ task' = [task EXCEPT ![t] = "waiting"]
  /\ dom' = [dom EXCEPT ![t] = d]
  /\ Acquire(t, d)
  /\ UNCHANGED <<since, remaining>>

\* target - now, nothing if the target has passed.
Sleep(d, j) == IF since[d] < MinInterval + j THEN MinInterval + j - since[d] ELSE 0

\* The permit is ours: read last_fetched and compute the sleep.
Compute(t) ==
  /\ task[t] = "waiting"
  /\ holder[dom[t]] = t
  /\ task' = [task EXCEPT ![t] = "sleep"]
  /\ \E j \in Jitters : remaining' = [remaining EXCEPT ![t] = Sleep(dom[t], j)]
  /\ UNCHANGED <<dom, holder, queue, since>>

\* Mutant: the sleep is not awaited.
StampAtOnce(t) ==
  /\ task[t] = "sleep"
  /\ task' = [task EXCEPT ![t] = "fetch"]
  /\ since' = [since EXCEPT ![dom[t]] = 0]
  /\ UNCHANGED <<dom, holder, queue, remaining>>

\* The sleep is over: stamp last_fetched, return, send the request.
Stamp(t) ==
  /\ task[t] = "sleep"
  /\ remaining[t] = 0
  /\ task' = [task EXCEPT ![t] = "fetch"]
  /\ since' = [since EXCEPT ![dom[t]] = 0]
  /\ UNCHANGED <<dom, holder, queue, remaining>>

\* Mutant: the first waiter is woken but gets no permit.
ReleaseLost(d) ==
  /\ holder' = [holder EXCEPT ![d] = NoTask]
  /\ queue' = IF queue[d] = <<>> THEN queue ELSE [queue EXCEPT ![d] = Tail(@)]

\* The permit goes to the first waiter, if there is one.
Release(d) ==
  IF queue[d] = <<>>
  THEN holder' = [holder EXCEPT ![d] = NoTask] /\ UNCHANGED queue
  ELSE /\ holder' = [holder EXCEPT ![d] = Head(queue[d])]
       /\ queue' = [queue EXCEPT ![d] = Tail(@)]

\* fetch returns (a response, an error or the 30 s timeout); drop(permit).
Done(t) ==
  /\ task[t] = "fetch"
  /\ task' = [task EXCEPT ![t] = "idle"]
  /\ Release(dom[t])
  /\ UNCHANGED <<dom, since, remaining>>

\* One tick of the clock.
Tick ==
  /\ since' = [d \in Domains |-> IF since[d] < MaxWait THEN since[d] + 1 ELSE MaxWait]
  /\ remaining' = [t \in Tasks |-> IF remaining[t] > 0 THEN remaining[t] - 1 ELSE 0]
  /\ UNCHANGED <<task, dom, holder, queue>>

ThrottleNext == \/ \E t \in Tasks : \/ \E d \in Domains : Request(t, d)
                                    \/ Compute(t) \/ Stamp(t) \/ Done(t)
                \/ Tick

ThrottleSpec == ThrottleInit /\ [][ThrottleNext]_throttleVars

\* The runtime runs every ready task, time passes, every fetch returns.
Fairness == /\ \A t \in Tasks : WF_throttleVars(Compute(t)) /\ WF_throttleVars(Stamp(t)) /\ WF_throttleVars(Done(t))
            /\ WF_throttleVars(Tick)

FairThrottleSpec == ThrottleSpec /\ Fairness
-----------------------------------------------------------------------------
(* Type invariant; no sleep is negative or longer than interval + jitter.  *)
ThrottleTypeOK ==
  /\ task \in [Tasks -> {"idle", "waiting", "sleep", "fetch"}]
  /\ dom \in [Tasks -> Domains]
  /\ holder \in [Domains -> Tasks \cup {NoTask}]
  /\ queue \in [Domains -> Seq(Tasks)]
  /\ since \in [Domains -> 0 .. MaxWait]
  /\ remaining \in [Tasks -> 0 .. MaxWait]

(* throttle.rs guarantee 1, per permit: two tasks are never past the       *)
(* semaphore of the same domain.                                           *)
OnePermit ==
  \A s, t \in Tasks :
    task[s] \in {"sleep", "fetch"} /\ task[t] \in {"sleep", "fetch"} /\ dom[s] = dom[t]
      => s = t

(* throttle.rs guarantee 2: a fetch of a domain starts at least            *)
(* MinInterval after the previous one of that domain started, although the *)
(* sleep was computed earlier, from a stamp read under another lock.       *)
PoliteGap ==
  [][\A t \in Tasks : task[t] = "sleep" /\ task'[t] = "fetch" => since[dom[t]] >= MinInterval]_throttleVars

(* Whoever calls wait gets to fetch, however busy the domain is.           *)
EveryWaiterFetches == \A t \in Tasks : task[t] = "waiting" ~> task[t] = "fetch"
=============================================================================
